---------------------------- MODULE Spec2Model ----------------------------
(***************************************************************************)
(* Reconciliation of a vSphere inventory tree against the Nautobot store.  *)
(* The per-kind create / update / delete handlers of                       *)
(* nautobot_ssot_vsphere/diffsync/diffsync_models.py act on three pieces   *)
(* of state: the store (the Nautobot tables), the in-memory target tree of *)
(* DiffSync nodes, and the adapter's objects_to_delete buckets.            *)
(***************************************************************************)
EXTENDS Integers, Sequences, FiniteSets, TLC

VARIABLES
    use_clusters,       \* defaults.DEFAULT_USE_CLUSTERS, fixed for a run
    initial,            \* the store as the run found it
    classified,         \* the last call of the site/service classifier
    store,              \* the Nautobot tables, one set of records per model
    nodes,              \* the target DiffSync tree, one set of nodes per _modelname
    objects_to_delete,  \* diffsync.objects_to_delete, one list per bucket key
    log,                \* diffsync.job.log_warning calls, in order
    raised,             \* the exception that left a handler, or NoException
    source,             \* the source trees of the passes of a reconciliation
    pass,               \* the pass a reconciliation is in
    queue,              \* the diff elements the walk has still to visit
    phase,              \* "walk", "flush" or "done"
    deleted,            \* the records the flush has deleted, in order
    processed,          \* the nodes the walk has already visited
    last                \* the last handler call: its inputs and its pre-state

vars == <<use_clusters, initial, classified, store, nodes, objects_to_delete, log, raised,
          source, pass, queue, phase, deleted, processed, last>>

---------------------------------------------------------------------------
(* Python values *)

\* None, for a string-valued field.
None == "<None>"

\* An unset relation to a cluster group; a group name is a sequence of characters.
NoGroup == <<>>

NoException == "none"

\* attrs.get(key): the value, or None when the key is absent from the dict.
HasKey(attrs, key) == key \in DOMAIN attrs

\* Python truthiness of the value held under key, per value type.
TruthyStr(attrs, key) == HasKey(attrs, key) /\ attrs[key] # None /\ attrs[key] # ""

TruthyInt(attrs, key) == HasKey(attrs, key) /\ attrs[key] # 0

TruthyBool(attrs, key) == HasKey(attrs, key) /\ attrs[key]

TruthySeq(attrs, key) == HasKey(attrs, key) /\ attrs[key] # <<>>

\* DiffSyncModel.update(attrs): the in-memory node takes every value of attrs.
MergeAttrs(node, attrs) ==
    [k \in DOMAIN node |-> IF k \in DOMAIN attrs THEN attrs[k] ELSE node[k]]

\* The restriction of a record to some of its fields.
Restrict(r, keys) == [k \in keys |-> r[k]]

---------------------------------------------------------------------------
(* django.utils.text.slugify, on sequences of characters.  A character is a
   string of length one; the characters of the model are those of code
   points 1 to 255, the range a string of this module can hold. *)

\* The characters str.lower() changes, and what it makes of each.
UpperCase ==
    <<"A", "B", "C", "D", "E", "F", "G", "H", "I", "J", "K", "L", "M", "N", "O", "P",
      "Q", "R", "S", "T", "U", "V", "W", "X", "Y", "Z", "À", "Á", "Â", "Ã", "Ä", "Å",
      "Æ", "Ç", "È", "É", "Ê", "Ë", "Ì", "Í", "Î", "Ï", "Ð", "Ñ", "Ò", "Ó", "Ô", "Õ",
      "Ö", "Ø", "Ù", "Ú", "Û", "Ü", "Ý", "Þ">>

LowerCase ==
    <<"a", "b", "c", "d", "e", "f", "g", "h", "i", "j", "k", "l", "m", "n", "o", "p",
      "q", "r", "s", "t", "u", "v", "w", "x", "y", "z", "à", "á", "â", "ã", "ä", "å",
      "æ", "ç", "è", "é", "ê", "ë", "ì", "í", "î", "ï", "ð", "ñ", "ò", "ó", "ô", "õ",
      "ö", "ø", "ù", "ú", "û", "ü", "ý", "þ">>

\* str.lower() of one character.
LowerOf(c) ==
    IF \E i \in DOMAIN UpperCase : UpperCase[i] = c
    THEN LowerCase[CHOOSE i \in DOMAIN UpperCase : UpperCase[i] = c]
    ELSE c

\* The characters above code point 127, each with what NFKD normalisation
\* followed by encode("ascii", "ignore") leaves of it.
Decompositions ==
    <<<<"", <<>>>>, <<"", <<>>>>, <<"", <<>>>>, <<"", <<>>>>, <<"", <<>>>>,
      <<"", <<>>>>, <<"", <<>>>>, <<"", <<>>>>, <<"", <<>>>>, <<"", <<>>>>,
      <<"", <<>>>>, <<"", <<>>>>, <<"", <<>>>>, <<"", <<>>>>, <<"", <<>>>>,
      <<"", <<>>>>, <<"", <<>>>>, <<"", <<>>>>, <<"", <<>>>>, <<"", <<>>>>,
      <<"", <<>>>>, <<"", <<>>>>, <<"", <<>>>>, <<"", <<>>>>, <<"", <<>>>>,
      <<"", <<>>>>, <<"", <<>>>>, <<"", <<>>>>, <<"", <<>>>>, <<"", <<>>>>,
      <<"", <<>>>>, <<"", <<>>>>, <<" ", <<" ">>>>, <<"¡", <<>>>>, <<"¢", <<>>>>,
      <<"£", <<>>>>, <<"¤", <<>>>>, <<"¥", <<>>>>, <<"¦", <<>>>>, <<"§", <<>>>>,
      <<"¨", <<" ">>>>, <<"©", <<>>>>, <<"ª", <<"a">>>>, <<"«", <<>>>>, <<"¬", <<>>>>,
      <<"­", <<>>>>, <<"®", <<>>>>, <<"¯", <<" ">>>>, <<"°", <<>>>>, <<"±", <<>>>>,
      <<"²", <<"2">>>>, <<"³", <<"3">>>>, <<"´", <<" ">>>>, <<"µ", <<>>>>,
      <<"¶", <<>>>>, <<"·", <<>>>>, <<"¸", <<" ">>>>, <<"¹", <<"1">>>>,
      <<"º", <<"o">>>>, <<"»", <<>>>>, <<"¼", <<"1", "4">>>>, <<"½", <<"1", "2">>>>,
      <<"¾", <<"3", "4">>>>, <<"¿", <<>>>>, <<"À", <<"A">>>>, <<"Á", <<"A">>>>,
      <<"Â", <<"A">>>>, <<"Ã", <<"A">>>>, <<"Ä", <<"A">>>>, <<"Å", <<"A">>>>,
      <<"Æ", <<>>>>, <<"Ç", <<"C">>>>, <<"È", <<"E">>>>, <<"É", <<"E">>>>,
      <<"Ê", <<"E">>>>, <<"Ë", <<"E">>>>, <<"Ì", <<"I">>>>, <<"Í", <<"I">>>>,
      <<"Î", <<"I">>>>, <<"Ï", <<"I">>>>, <<"Ð", <<>>>>, <<"Ñ", <<"N">>>>,
      <<"Ò", <<"O">>>>, <<"Ó", <<"O">>>>, <<"Ô", <<"O">>>>, <<"Õ", <<"O">>>>,
      <<"Ö", <<"O">>>>, <<"×", <<>>>>, <<"Ø", <<>>>>, <<"Ù", <<"U">>>>,
      <<"Ú", <<"U">>>>, <<"Û", <<"U">>>>, <<"Ü", <<"U">>>>, <<"Ý", <<"Y">>>>,
      <<"Þ", <<>>>>, <<"ß", <<>>>>, <<"à", <<"a">>>>, <<"á", <<"a">>>>,
      <<"â", <<"a">>>>, <<"ã", <<"a">>>>, <<"ä", <<"a">>>>, <<"å", <<"a">>>>,
      <<"æ", <<>>>>, <<"ç", <<"c">>>>, <<"è", <<"e">>>>, <<"é", <<"e">>>>,
      <<"ê", <<"e">>>>, <<"ë", <<"e">>>>, <<"ì", <<"i">>>>, <<"í", <<"i">>>>,
      <<"î", <<"i">>>>, <<"ï", <<"i">>>>, <<"ð", <<>>>>, <<"ñ", <<"n">>>>,
      <<"ò", <<"o">>>>, <<"ó", <<"o">>>>, <<"ô", <<"o">>>>, <<"õ", <<"o">>>>,
      <<"ö", <<"o">>>>, <<"÷", <<>>>>, <<"ø", <<>>>>, <<"ù", <<"u">>>>,
      <<"ú", <<"u">>>>, <<"û", <<"u">>>>, <<"ü", <<"u">>>>, <<"ý", <<"y">>>>,
      <<"þ", <<>>>>, <<"ÿ", <<"y">>>>>>

\* unicodedata.normalize("NFKD", value).encode("ascii", "ignore").decode("ascii")
RECURSIVE NormalizeAscii(_)
NormalizeAscii(s) ==
    IF s = <<>> THEN <<>>
    ELSE LET hits == {i \in DOMAIN Decompositions : Decompositions[i][1] = Head(s)}
         IN  (IF hits = {} THEN <<Head(s)>>
              ELSE Decompositions[CHOOSE i \in hits : TRUE][2])
             \o NormalizeAscii(Tail(s))

\* \w of a str pattern: a letter, a digit or "_".
IsWordChar(c) ==
    \/ \E i \in DOMAIN UpperCase : c \in {UpperCase[i], LowerCase[i]}
    \/ c \in {"0", "1", "2", "3", "4", "5", "6", "7", "8", "9", "_"}
    \/ c \in {"ª", "²", "³", "µ", "¹", "º", "¼", "½", "¾", "ß", "ÿ"}

\* [-\s]: "-" or a whitespace character of a str pattern: the space, tab,
\* line feed, carriage return, form feed, the vertical tab (0x0b), the four
\* separators 0x1c to 0x1f, the next line (0x85) and the no-break space (0xa0).
IsSepChar(c) ==
    c \in {" ", "\t", "\n", "\r", "\f", "", "", "", "", "", "",
           " ", "-"}

\* value.lower()
RECURSIVE LowerAll(_)
LowerAll(s) == IF s = <<>> THEN <<>> ELSE <<LowerOf(Head(s))>> \o LowerAll(Tail(s))

\* re.sub(r"[^\w\s-]", "", value)
RECURSIVE KeepSlugChars(_)
KeepSlugChars(s) ==
    IF s = <<>> THEN <<>>
    ELSE IF IsWordChar(Head(s)) \/ IsSepChar(Head(s))
         THEN <<Head(s)>> \o KeepSlugChars(Tail(s))
         ELSE KeepSlugChars(Tail(s))

\* re.sub(r"[-\s]+", "-", value)
RECURSIVE CollapseSeps(_)
CollapseSeps(s) ==
    IF s = <<>> THEN <<>>
    ELSE IF IsSepChar(Head(s))
         THEN IF Tail(s) # <<>> /\ IsSepChar(Head(Tail(s)))
              THEN CollapseSeps(Tail(s))
              ELSE <<"-">> \o CollapseSeps(Tail(s))
         ELSE <<Head(s)>> \o CollapseSeps(Tail(s))

RECURSIVE StripLeft(_)
StripLeft(s) ==
    IF s # <<>> /\ Head(s) \in {"-", "_"} THEN StripLeft(Tail(s)) ELSE s

RECURSIVE StripRight(_)
StripRight(s) ==
    IF s # <<>> /\ s[Len(s)] \in {"-", "_"}
    THEN StripRight(SubSeq(s, 1, Len(s) - 1))
    ELSE s

\* slugify(value): folded to ASCII, lower-cased, cleaned, and stripped of the
\* dashes and underscores at its ends.
slugify(name) ==
    StripRight(StripLeft(CollapseSeps(KeepSlugChars(LowerAll(NormalizeAscii(name))))))

---------------------------------------------------------------------------
(* utilities/hasmat.py: the site and service classifier.  A string is a
   sequence of characters; a pattern is the set of its alternatives, each a
   text that may be anchored at the start (^) or at the end ($). *)

\* str.lower()
lower(s) == [i \in DOMAIN s |-> LowerOf(s[i])]

\* Whether the text stands in s from position i on, letter case ignored.
TextAt(s, i, text) ==
    /\ i + Len(text) - 1 <= Len(s)
    /\ lower(SubSeq(s, i, i + Len(text) - 1)) = lower(text)

\* $ matches at the end of the string and before a newline that ends it.
AtEnd(s, i) == i = Len(s) + 1 \/ (i = Len(s) /\ s[i] = "\n")

\* One alternative of a pattern matches somewhere in s.
AlternativeMatches(alternative, s) ==
    \E i \in 1..(Len(s) + 1) :
        /\ alternative.start => i = 1
        /\ TextAt(s, i, alternative.text)
        /\ alternative.end => AtEnd(s, i + Len(alternative.text))

\* re.search(pattern, s, re.IGNORECASE), as a truth value
search(pattern, s) == \E alternative \in pattern : AlternativeMatches(alternative, s)

Unknown == <<"u", "n", "k", "n", "o", "w", "n">>

SplitKey == <<"s", "p", "l", "i", "t">>

\* The patterns of ORGANIZATION_DC_MAPPINGS with their keys, in iteration order.
ORGANIZATION_DC_MAPPINGS ==
    <<[key |-> <<"G", "T", "N">>,
       pattern |->
         {[start |-> TRUE, end |-> TRUE, text |-> <<"J", "U", "P", "I", "T", "E", "R">>]}],
      [key |-> <<"G", "T", "N">>,
       pattern |->
         {[start |-> FALSE, end |-> FALSE, text |-> <<"G", "e", "r", "m", "a", "n", "t", "o", "w", "n">>]}],
      [key |-> <<"G", "T", "N">>,
       pattern |->
         {[start |-> FALSE, end |-> FALSE, text |-> <<"S", "O", "U", "T", "H", " ", "A", "M", "E", "R", "I", "C", "A">>],
          [start |-> FALSE, end |-> FALSE, text |-> <<"J", "U", "P", "I", "T", "E", "R", " ", "2">>],
          [start |-> FALSE, end |-> FALSE, text |-> <<"H", "U", "G", "H", "E", "S", " ", "N", "O", "C">>],
          [start |-> FALSE, end |-> FALSE, text |-> <<"E", "N", "T", "E", "R", "P", "R", "I", "S", "E">>],
          [start |-> FALSE, end |-> FALSE, text |-> <<"E", "M", "7">>],
          [start |-> FALSE, end |-> FALSE, text |-> <<"T", "1", "9", " ", "D", "D", "N", "S">>],
          [start |-> FALSE, end |-> FALSE, text |-> <<"E", "0", "5", "-", "J", "2", "W", "W", "-", "G", "T", "N">>],
          [start |-> FALSE, end |-> FALSE, text |-> <<"S", "B", "S", "S">>],
          [start |-> FALSE, end |-> FALSE, text |-> <<"H", "U", "G", "H", "E", "S", " ", "R", "F", "T">>],
          [start |-> FALSE, end |-> FALSE, text |-> <<"G", "S", "D", "S">>],
          [start |-> FALSE, end |-> FALSE, text |-> <<"T", "1", "9", "-", "N", "M", "S">>],
          [start |-> FALSE, end |-> FALSE, text |-> <<"S", "Y", "S", "T", "E", "M">>],
          [start |-> FALSE, end |-> FALSE, text |-> <<"F", "A", "C", "I", "L", "I", "T", "Y">>],
          [start |-> FALSE, end |-> FALSE, text |-> <<"J", "U", "P", "2", " ", "R", "F", "T">>],
          [start |-> FALSE, end |-> FALSE, text |-> <<"H", "U", "G", "H", "E", "S", " ", "E", "X", "X", "O", "N", "M", "O", "B", "I", "L", "E">>],
          [start |-> FALSE, end |-> FALSE, text |-> <<"T", "1", "9", " ", "R", "F", "T">>]}],
      [key |-> <<"G", "T", "N">>,
       pattern |->
         {[start |-> TRUE, end |-> FALSE, text |-> <<"G", "T", "N">>]}],
      [key |-> <<"T", "1", "9">>,
       pattern |->
         {[start |-> TRUE, end |-> FALSE, text |-> <<"T", "1", "9", "-">>]}],
      [key |-> <<"G", "E", "E">>,
       pattern |->
         {[start |-> TRUE, end |-> FALSE, text |-> <<"R", "O", "W">>]}],
      [key |-> <<"D", "E", "T">>,
       pattern |->
         {[start |-> FALSE, end |-> FALSE, text |-> <<"D", "e", "t", "r", "o", "i", "t">>]}],
      [key |-> <<"N", "L", "V">>,
       pattern |->
         {[start |-> FALSE, end |-> FALSE, text |-> <<"V", "e", "g", "a", "s">>]}],
      [key |-> <<"s", "p", "l", "i", "t">>,
       pattern |->
         {[start |-> TRUE, end |-> FALSE, text |-> <<"J", "U", "P", "I", "T", "E", "R", "-">>]}],
      [key |-> <<"s", "p", "l", "i", "t">>,
       pattern |->
         {[start |-> TRUE, end |-> FALSE, text |-> <<"J", "U", "P", "2", "-">>]}],
      [key |-> <<"s", "p", "l", "i", "t">>,
       pattern |->
         {[start |-> TRUE, end |-> FALSE, text |-> <<"J", "1">>]}],
      [key |-> <<"s", "p", "l", "i", "t">>,
       pattern |->
         {[start |-> TRUE, end |-> FALSE, text |-> <<"J", "2">>]}],
      [key |-> <<"s", "p", "l", "i", "t">>,
       pattern |->
         {[start |-> TRUE, end |-> FALSE, text |-> <<"J", "3">>]}]>>

\* The patterns of DEVICE_NAME_DC_MAPPINGS with their keys, in iteration order.
DEVICE_NAME_DC_MAPPINGS ==
    <<[key |-> <<"G", "T", "N">>,
       pattern |->
         {[start |-> TRUE, end |-> FALSE, text |-> <<"G", "T", "N">>],
          [start |-> TRUE, end |-> FALSE, text |-> <<"D", "S", "S">>],
          [start |-> TRUE, end |-> FALSE, text |-> <<"V", "M", "W", "H", "N">>],
          [start |-> FALSE, end |-> FALSE, text |-> <<"a", "c", "5">>],
          [start |-> FALSE, end |-> FALSE, text |-> <<"a", "c", "3">>],
          [start |-> FALSE, end |-> FALSE, text |-> <<"a", "3", "4">>],
          [start |-> FALSE, end |-> FALSE, text |-> <<"a", "3", "6">>],
          [start |-> FALSE, end |-> FALSE, text |-> <<"a", "c", "3", "0", "3">>],
          [start |-> FALSE, end |-> FALSE, text |-> <<"b", "1", "2">>]}],
      [key |-> <<"D", "E", "T">>,
       pattern |->
         {[start |-> TRUE, end |-> FALSE, text |-> <<"D", "E", "T">>]}],
      [key |-> <<"G", "I", "L">>,
       pattern |->
         {[start |-> FALSE, end |-> FALSE, text |-> <<"G", "I", "L">>]}],
      [key |-> <<"S", "W", "A">>,
       pattern |->
         {[start |-> FALSE, end |-> FALSE, text |-> <<"S", "W", "A">>]}],
      [key |-> <<"N", "L", "V">>,
       pattern |->
         {[start |-> TRUE, end |-> FALSE, text |-> <<"N", "L", "V">>],
          [start |-> TRUE, end |-> FALSE, text |-> <<"N", "V", "X">>]}],
      [key |-> <<"B", "X", "I">>,
       pattern |->
         {[start |-> TRUE, end |-> FALSE, text |-> <<"B", "X", "I">>]}],
      [key |-> <<"S", "V", "8">>,
       pattern |->
         {[start |-> FALSE, end |-> FALSE, text |-> <<"S", "V", "8">>]}],
      [key |-> <<"S", "L", "C">>,
       pattern |->
         {[start |-> FALSE, end |-> FALSE, text |-> <<"S", "L", "C">>]}],
      [key |-> <<"C", "H", "Y">>,
       pattern |->
         {[start |-> FALSE, end |-> FALSE, text |-> <<"C", "H", "Y">>]}],
      [key |-> <<"C", "H", "1">>,
       pattern |->
         {[start |-> FALSE, end |-> FALSE, text |-> <<"C", "H", "1">>]}],
      [key |-> <<"D", "A", "1">>,
       pattern |->
         {[start |-> FALSE, end |-> FALSE, text |-> <<"D", "A", "1">>]}],
      [key |-> <<"G", "I", "L">>,
       pattern |->
         {[start |-> FALSE, end |-> FALSE, text |-> <<"G", "I", "L">>]}],
      [key |-> <<"S", "E", "A">>,
       pattern |->
         {[start |-> FALSE, end |-> FALSE, text |-> <<"S", "E", "A">>]}]>>

\* The patterns of SERVICE_MAPPINGS with their keys, in iteration order.
SERVICE_MAPPINGS ==
    <<[key |-> <<"j", "1">>,
       pattern |->
         {[start |-> TRUE, end |-> FALSE, text |-> <<"J", "1">>]}],
      [key |-> <<"j", "2">>,
       pattern |->
         {[start |-> TRUE, end |-> FALSE, text |-> <<"J", "2">>]}],
      [key |-> <<"j", "3">>,
       pattern |->
         {[start |-> TRUE, end |-> FALSE, text |-> <<"J", "3">>]}]>>

\* ORGANIZATION_SERVICE_MAPPINGS = {"jupiter": "j1", "jup2": "j2"}
ORGANIZATION_SERVICE_MAPPINGS ==
    {[from |-> <<"j", "u", "p", "i", "t", "e", "r">>, to |-> <<"j", "1">>],
     [from |-> <<"j", "u", "p", "2">>, to |-> <<"j", "2">>]}

normalize_service(service) ==
    LET lowered == lower(service)
        mapped == {m \in ORGANIZATION_SERVICE_MAPPINGS : m.from = lowered}
    IN  IF mapped # {} THEN (CHOOSE m \in mapped : TRUE).to ELSE lowered

\* The positions of a character in a string.
Positions(s, c) == {i \in DOMAIN s : s[i] = c}

FirstOf(positions) == CHOOSE i \in positions : \A j \in positions : i <= j

\* organization.replace(" ", "-", 1)
ReplaceFirstSpace(s) ==
    IF Positions(s, " ") = {} THEN s
    ELSE [s EXCEPT ![FirstOf(Positions(s, " "))] = "-"]

\* s.split("-", 1): one part when s has no "-", else two.
SplitOnce(s) ==
    IF Positions(s, "-") = {} THEN <<s>>
    ELSE LET i == FirstOf(Positions(s, "-"))
         IN  <<SubSeq(s, 1, i - 1), SubSeq(s, i + 1, Len(s))>>

\* What a call of the classifier gives: a pair, a string, or an exception.
Classified(service, site) == [raised |-> NoException, service |-> service, site |-> site]

ClassifierRaised(exception) == [raised |-> exception, service |-> <<>>, site |-> <<>>]

\* The loops of parse_organization_for_site_service from the i-th pattern on.
RECURSIVE ScanOrganization(_, _, _, _)
ScanOrganization(i, organization, service, site) ==
    IF i > Len(ORGANIZATION_DC_MAPPINGS)
    THEN Classified(normalize_service(service), lower(site))
    ELSE LET mapping == ORGANIZATION_DC_MAPPINGS[i]
             parts == SplitOnce(ReplaceFirstSpace(organization))
         IN  IF ~search(mapping.pattern, organization)
             THEN ScanOrganization(i + 1, organization, service, site)
             ELSE IF mapping.key # SplitKey
             THEN ScanOrganization(i + 1, organization, service, mapping.key)
             ELSE IF Len(parts) # 2
             THEN \* service, site = [one part]: not enough values to unpack
                  ClassifierRaised("ValueError")
             ELSE ScanOrganization(i + 1, organization, parts[1], parts[2])

parse_organization_for_site_service(organization) ==
    ScanOrganization(1, organization,
                     IF organization = <<"F", "u", "s", "i", "o", "n">> THEN <<"f", "s", "n">> ELSE Unknown, Unknown)

\* The loops of parse_name_for_site from the i-th pattern on.
RECURSIVE ScanNameForSite(_, _, _)
ScanNameForSite(i, device_name, site) ==
    IF i > Len(DEVICE_NAME_DC_MAPPINGS) THEN lower(site)
    ELSE ScanNameForSite(i + 1, device_name,
             IF search(DEVICE_NAME_DC_MAPPINGS[i].pattern, device_name)
             THEN DEVICE_NAME_DC_MAPPINGS[i].key ELSE site)

parse_name_for_site(device_name) == ScanNameForSite(1, device_name, Unknown)

\* The loops of parse_name_for_service from the i-th pattern on: a pattern
\* that does not match sets the service to "hns".
RECURSIVE ScanNameForService(_, _, _)
ScanNameForService(i, device_name, service) ==
    IF i > Len(SERVICE_MAPPINGS) THEN service
    ELSE ScanNameForService(i + 1, device_name,
             IF search(SERVICE_MAPPINGS[i].pattern, device_name)
             THEN SERVICE_MAPPINGS[i].key ELSE <<"h", "n", "s">>)

parse_name_for_service(device_name) == ScanNameForService(1, device_name, Unknown)

\* site.replace("-", " ").split(" ")[0]
FirstWord(site) ==
    LET ends == Positions(site, " ") \cup Positions(site, "-")
    IN  IF ends = {} THEN site ELSE SubSeq(site, 1, FirstOf(ends) - 1)

get_site_and_service(organization, device_name) ==
    LET parsed == parse_organization_for_site_service(organization)
        service == IF parsed.service = Unknown THEN parse_name_for_service(device_name)
                   ELSE parsed.service
        site == IF parsed.site = Unknown THEN parse_name_for_site(device_name)
                ELSE parsed.site
    IN  IF parsed.raised # NoException THEN parsed
        ELSE Classified(service, FirstWord(site))

\* No call of the classifier yet.
NotClassified ==
    [fn |-> "none", organization |-> <<>>, device_name |-> <<>>,
     result |-> Classified(<<>>, <<>>)]

---------------------------------------------------------------------------
(* Configuration and reference data *)

\* defaults.DEFAULT_VSPHERE_TYPE and defaults.DEFAULT_CLUSTER_NAME.
DEFAULT_VSPHERE_TYPE == "VMWare vSphere"

DEFAULT_CLUSTER_NAME == "vSphere Default Cluster"

\* defaults.ENFORCE_CLUSTER_GROUP_TOP_LEVEL: clusters are loaded below their
\* cluster group.
ENFORCE_CLUSTER_GROUP_TOP_LEVEL == TRUE

\* The Status, Site, DeviceType and DeviceRole tables: no handler writes them.
Statuses == {"Active", "Offline"}

Sites == {"gtn"}

DeviceTypes == {"esx", "kvm"}

DeviceRoles == {"hypervisor"}

\* The strings of the model that match one of the MAC address patterns.
ValidMacs == {"00:50:56:00:00:01", "00:50:56:00:00:02"}

\* netutils.mac.is_valid_mac: re.fullmatch(pattern, mac) for each MAC address
\* pattern.  A string gives True or False; None is no string and re raises
\* TypeError.
is_valid_mac(mac) ==
    IF mac = None
    THEN [raised |-> "TypeError", returned |-> FALSE]
    ELSE [raised |-> NoException, returned |-> mac \in ValidMacs]

\* ip_address.address.version, for the hosts of the model.
V6Hosts == {"fd00::1"}

version(host) == IF host \in V6Hosts THEN 6 ELSE 4

\* An unset primary address, or an address with no interface: a null foreign
\* key, where a set one holds the primary key of a row.
NoIP == 0

NoInterface == 0

---------------------------------------------------------------------------
(* The store: Django models as tables of records *)

Tables == {"clustergroup", "clustertype", "cluster", "virtualmachine",
           "vminterface", "ipaddress", "device"}

\* Every row has a primary key, pk, and next_pk is the key the next new row
\* takes.  A row refers to a virtual machine, an interface or an address by
\* that row's pk; it refers to a cluster, a cluster type or a cluster group,
\* whose names are unique and never change, by that row's name.
EmptyStore == [t \in Tables |-> {}] @@ [next_pk |-> 1]

\* The rows of a table that have a primary key: one at most.
WithPk(st, table, pk) == {r \in st[table] : r.pk = pk}

\* Two rows that a uniqueness constraint of the table forbids together.  A
\* cluster group is unique by name and by slug, a cluster type and a cluster
\* by name, an interface by virtual machine and name.  A virtual machine and
\* a device are unique by name only within a tenant, and the handlers set
\* none; an address has no uniqueness constraint.
UniqueClash(table, r, new) ==
    CASE table = "clustergroup" -> r.name = new.name \/ r.slug = new.slug
      [] table \in {"clustertype", "cluster"} -> r.name = new.name
      [] table = "vminterface" ->
            r.virtual_machine = new.virtual_machine /\ r.name = new.name
      [] OTHER -> FALSE

\* instance.save(): the row of that primary key is written.
Save(st, table, rec) ==
    [st EXCEPT ![table] = {r \in @ : r.pk # rec.pk} \cup {rec}]

\* instance.delete(): the row of that primary key is removed.
Remove(st, table, rec) ==
    [st EXCEPT ![table] = {r \in @ : r.pk # rec.pk}]

\* name__iexact: two device names, sequences of characters, that are equal
\* but for letter case.
iexact(a, b) == lower(a) = lower(b)

\* Model.objects.get(**fields): the rows that match every given field.
Matching(st, table, fields) ==
    {r \in st[table] : \A k \in DOMAIN fields : r[k] = fields[k]}

\* Model.objects.get_or_create(**fields): the matching row, of which there
\* must be one only (MultipleObjectsReturned); else a new row, with a new
\* primary key, unless a uniqueness constraint refuses it (IntegrityError).
get_or_create(st, table, fields, new) ==
    LET found == Matching(st, table, fields)
        row == new @@ [pk |-> st.next_pk]
    IN  IF Cardinality(found) > 1
        THEN [status |-> "MultipleObjectsReturned", rec |-> new, store |-> st]
        ELSE IF found # {}
        THEN [status |-> "found", rec |-> CHOOSE r \in found : TRUE, store |-> st]
        ELSE IF \E r \in st[table] : UniqueClash(table, r, new)
        THEN [status |-> "IntegrityError", rec |-> new, store |-> st]
        ELSE [status |-> "created", rec |-> row,
              store |-> [Save(st, table, row) EXCEPT !.next_pk = @ + 1]]

\* utilities.tag_object(obj): tags the object and saves it.
tag_object(st, table, rec) == Save(st, table, [rec EXCEPT !.tagged = TRUE])

\* The AutoSlugField of ClusterGroup: slugify(name), then that with "-2",
\* "-3" and so on after it, until the slug is not empty and no group has it.
RECURSIVE AutoSlugFrom(_, _, _)
AutoSlugFrom(st, base, n) ==
    LET RECURSIVE str(_)
        str(k) == IF k < 10
                  THEN <<<<"0", "1", "2", "3", "4", "5", "6", "7", "8", "9">>[k + 1]>>
                  ELSE str(k \div 10) \o str(k % 10)
        cand == IF n = 1 THEN base ELSE base \o <<"-">> \o str(n)
    IN  IF cand # <<>> /\ ~\E g \in st.clustergroup : g.slug = cand
        THEN cand
        ELSE AutoSlugFrom(st, base, n + 1)

AutoSlug(st, name) == AutoSlugFrom(st, slugify(name), 1)

---------------------------------------------------------------------------
(* What a handler call leaves behind *)

Warning(text, id) == [level |-> "warning", text |-> text, id |-> id]

\* The handler returned the model (self, or the new instance).
Returned(st, otd, lg) ==
    [store |-> st, objects_to_delete |-> otd, log |-> lg,
     raised |-> NoException, returned |-> "model", met |-> NoException]

\* The handler fell off its end or out of an except clause: it returned None.
ReturnedNone(st, otd, lg) ==
    [store |-> st, objects_to_delete |-> otd, log |-> lg,
     raised |-> NoException, returned |-> "None", met |-> NoException]

\* An exception left the handler.
Raised(st, otd, lg, exc) ==
    [store |-> st, objects_to_delete |-> otd, log |-> lg,
     raised |-> exc, returned |-> "raise", met |-> exc]

\* The same result, reached through an except clause that caught exc.
Caught(result, exc) == [result EXCEPT !.met = exc]

---------------------------------------------------------------------------
(* DiffSyncExtras *)

BucketKeys == {"_clustergroup", "_cluster", "_virtualmachine", "_vminterface",
               "_ipaddress", "_device"}

\* A filing that ignores the class of the object: one bucket for all.
OneBucket(table) == "_ipaddress"

\* f"_{nautobot_object.__class__.__name__.lower()}"
BucketOf(table) ==
    CASE table = "clustergroup" -> "_clustergroup"
      [] table = "cluster" -> "_cluster"
      [] table = "virtualmachine" -> "_virtualmachine"
      [] table = "vminterface" -> "_vminterface"
      [] table = "ipaddress" -> "_ipaddress"
      [] table = "device" -> "_device"

\* The object is filed under the bucket of its class; nothing is deleted.
ordered_delete(st, otd, lg, table, rec) ==
    Returned(st, [otd EXCEPT ![BucketOf(table)] =
                         Append(@, [table |-> table, rec |-> rec])], lg)

---------------------------------------------------------------------------
(* DiffSyncClusterGroup *)

ClusterGroup_create(st, otd, lg, ids, attrs) ==
    LET new == [name |-> ids.name, slug |-> slugify(ids.name), tagged |-> FALSE]
        got == get_or_create(st, "clustergroup",
                             [name |-> ids.name, slug |-> slugify(ids.name)], new)
    IN  IF got.status = "IntegrityError"
        THEN Caught(Returned(st, otd,
                        Append(lg, Warning("ClusterGroup already exists", ids.name))),
                    "IntegrityError")
        ELSE Returned(tag_object(got.store, "clustergroup", got.rec), otd, lg)

ClusterGroup_delete(st, otd, lg, self) ==
    LET found == Matching(st, "clustergroup", [name |-> self.name])
    IN  IF found = {}
        THEN Caught(ReturnedNone(st, otd,
                 Append(lg, Warning("Unable to match Cluster Group by name", self.name))),
                 "DoesNotExist")
        ELSE ordered_delete(st, otd, lg, "clustergroup", CHOOSE g \in found : TRUE)

---------------------------------------------------------------------------
(* DiffSyncCluster *)

\* ClusterType.objects.get_or_create(name=defaults.DEFAULT_VSPHERE_TYPE)
DefaultType(st) ==
    get_or_create(st, "clustertype", [name |-> DEFAULT_VSPHERE_TYPE],
                  [name |-> DEFAULT_VSPHERE_TYPE, tagged |-> FALSE])

\* ClusterGroup.objects.get_or_create(name=group): the slug fills itself in.
GroupNamed(st, group) ==
    get_or_create(st, "clustergroup", [name |-> group],
                  [name |-> group, slug |-> AutoSlug(st, group), tagged |-> FALSE])

Cluster_create(st, otd, lg, ids, attrs) ==
    LET type == DefaultType(st)
        st1 == tag_object(type.store, "clustertype", type.rec)
        new == [name |-> ids.name, type |-> DEFAULT_VSPHERE_TYPE, group |-> NoGroup,
                tagged |-> FALSE]
        got == get_or_create(st1, "cluster",
                             [name |-> ids.name, type |-> DEFAULT_VSPHERE_TYPE], new)
    IN  IF got.status = "IntegrityError"
        THEN Caught(Returned(st1, otd,
                        Append(lg, Warning("ClusterGroup already exists", ids.name))),
                    "IntegrityError")
        ELSE IF attrs.group # NoGroup
        THEN LET grp == GroupNamed(got.store, attrs.group)
             IN  IF grp.status = "IntegrityError"
                 THEN \* the cluster of line 100 is written; the group is refused
                      Caught(Returned(got.store, otd,
                                 Append(lg, Warning("ClusterGroup already exists",
                                                    ids.name))),
                             "IntegrityError")
                 ELSE Returned(tag_object(grp.store, "cluster",
                                          [got.rec EXCEPT !.group = attrs.group]),
                               otd, lg)
        ELSE Returned(tag_object(got.store, "cluster", got.rec), otd, lg)

Cluster_delete(st, otd, lg, self) ==
    LET found == Matching(st, "cluster", [name |-> self.name])
    IN  IF found = {}
        THEN Caught(ReturnedNone(st, otd,
                 Append(lg, Warning("Unable to match Cluster by name", self.name))),
                 "DoesNotExist")
        ELSE ordered_delete(st, otd, lg, "cluster", CHOOSE c \in found : TRUE)

\* No try, and no return statement: a missing cluster raises, and the method
\* returns None after it has written.
Cluster_update(st, otd, lg, self, attrs) ==
    LET found == Matching(st, "cluster", [name |-> self.name])
    IN  IF found = {}
        THEN Raised(st, otd, lg, "Cluster.DoesNotExist")
        ELSE LET cluster == CHOOSE c \in found : TRUE
                 type == DefaultType(st)
                 grp == IF TruthySeq(attrs, "group")
                        THEN GroupNamed(type.store, attrs.group)
                        ELSE [status |-> "none", store |-> type.store]
                 c1 == IF TruthySeq(attrs, "group")
                       THEN [cluster EXCEPT !.group = attrs.group]
                       ELSE cluster
                 c2 == IF TruthyStr(attrs, "cluster_type")
                       THEN [c1 EXCEPT !.type = DEFAULT_VSPHERE_TYPE]
                       ELSE c1
             IN  IF grp.status = "IntegrityError"
                 THEN Raised(type.store, otd, lg, "IntegrityError")
                 ELSE ReturnedNone(tag_object(grp.store, "cluster", c2), otd, lg)

---------------------------------------------------------------------------
(* DiffSyncVirtualMachine *)

\* A scan without the comparison of hosts: every address of the version.
EveryAddress(st, vm, attrs, v) ==
    {ip \in st.ipaddress :
        /\ \E i \in st.vminterface : i.virtual_machine = vm.pk /\ ip.assigned = i.pk
        /\ version(ip.host) = v}

\* The scan meets address a before address b: interfaces.all() goes by the
\* name of the interface, ip_addresses.all() by host and prefix length.  The
\* interfaces of the model are eth0 and eth1; the addresses compared are on
\* interfaces of one virtual machine and share their host.  Addresses of one
\* interface that are equal in host and prefix length come as they were made.
ScannedBefore(st, a, b) ==
    LET order == <<"eth0", "eth1">>
        interface(ip) == CHOOSE i \in st.vminterface : i.pk = ip.assigned
        place(ip) == CHOOSE k \in DOMAIN order : order[k] = interface(ip).name
    IN  \/ place(a) < place(b)
        \/ place(a) = place(b) /\ a.prefix_length < b.prefix_length
        \/ place(a) = place(b) /\ a.prefix_length = b.prefix_length /\ a.pk < b.pk

\* The addresses on the interfaces of a virtual machine whose host is the
\* configured primary address of their own version.
PrimaryMatches(st, vm, attrs, v) ==
    LET key == IF v = 4 THEN "primary_ip4" ELSE "primary_ip6"
    IN  {ip \in st.ipaddress :
            /\ \E i \in st.vminterface :
                  i.virtual_machine = vm.pk /\ ip.assigned = i.pk
            /\ version(ip.host) = v
            /\ HasKey(attrs, key)
            /\ ip.host = attrs[key]}

VirtualMachine_create(st, otd, lg, ids, attrs) ==
    IF attrs.status \notin Statuses
    THEN Raised(st, otd, lg, "Status.DoesNotExist")
    ELSE IF use_clusters /\ ~HasKey(attrs, "cluster")
    THEN Raised(st, otd, lg, "KeyError")
    ELSE IF use_clusters /\ Matching(st, "cluster", [name |-> attrs.cluster]) = {}
    THEN Raised(st, otd, lg, "Cluster.DoesNotExist")
    ELSE
    LET type == DefaultType(st)
        st1 == IF use_clusters THEN st
               ELSE tag_object(type.store, "clustertype", type.rec)
        dflt == get_or_create(st1, "cluster",
                    [name |-> DEFAULT_CLUSTER_NAME, type |-> DEFAULT_VSPHERE_TYPE],
                    [name |-> DEFAULT_CLUSTER_NAME, type |-> DEFAULT_VSPHERE_TYPE,
                     group |-> NoGroup, tagged |-> FALSE])
        st2 == IF use_clusters THEN st ELSE tag_object(dflt.store, "cluster", dflt.rec)
        cluster == IF use_clusters THEN attrs.cluster ELSE DEFAULT_CLUSTER_NAME
        fields == [name |-> ids.name, status |-> attrs.status, cluster |-> cluster,
                   vcpus |-> attrs.vcpus, memory |-> attrs.memory, disk |-> attrs.disk]
        new == [name |-> ids.name, status |-> attrs.status, cluster |-> cluster,
                vcpus |-> attrs.vcpus, memory |-> attrs.memory, disk |-> attrs.disk,
                primary_ip4 |-> NoIP, primary_ip6 |-> NoIP, tagged |-> FALSE]
        got == get_or_create(st2, "virtualmachine", fields, new)
    IN  IF ~use_clusters /\ dflt.status = "IntegrityError"
        THEN Caught(Returned(st1, otd,
                        Append(lg, Warning("Virtual Machine already exists", ids.name))),
                    "IntegrityError")
        ELSE IF got.status = "MultipleObjectsReturned"
        THEN Raised(st2, otd, lg, "MultipleObjectsReturned")
        ELSE IF got.status = "IntegrityError"
        THEN Caught(Returned(st2, otd,
                        Append(lg, Warning("Virtual Machine already exists", ids.name))),
                    "IntegrityError")
        ELSE Returned(tag_object(got.store, "virtualmachine", got.rec), otd, lg)

VirtualMachine_delete(st, otd, lg, self) ==
    LET found == Matching(st, "virtualmachine", [name |-> self.name])
    IN  IF found = {}
        THEN Caught(ReturnedNone(st, otd,
                 Append(lg, Warning("Unable to match VirtualMachine by name", self.name))),
                 "DoesNotExist")
        ELSE IF Cardinality(found) > 1
        THEN Raised(st, otd, lg, "MultipleObjectsReturned")
        ELSE ordered_delete(st, otd, lg, "virtualmachine", CHOOSE v \in found : TRUE)

VirtualMachine_update(st, otd, lg, self, attrs) ==
    LET found == Matching(st, "virtualmachine", [name |-> self.name])
    IN  IF found = {}
        THEN Caught(ReturnedNone(st, otd,
                 Append(lg, Warning("Unable to match VirtualMachine by name", self.name))),
                 "DoesNotExist")
        ELSE IF Cardinality(found) > 1
        THEN Raised(st, otd, lg, "MultipleObjectsReturned")
        ELSE IF TruthyStr(attrs, "status") /\ attrs.status \notin Statuses
        THEN Raised(st, otd, lg, "Status.DoesNotExist")
        ELSE
        LET vm == CHOOSE v \in found : TRUE
            v1 == IF TruthyStr(attrs, "status") THEN [vm EXCEPT !.status = attrs.status]
                  ELSE vm
            v2 == IF TruthyInt(attrs, "vcpus") THEN [v1 EXCEPT !.vcpus = attrs.vcpus]
                  ELSE v1
            v3 == IF TruthyInt(attrs, "memory") THEN [v2 EXCEPT !.memory = attrs.memory]
                  ELSE v2
            v4 == IF TruthyInt(attrs, "disk") THEN [v3 EXCEPT !.disk = attrs.disk]
                  ELSE v3
            m4 == PrimaryMatches(st, vm, attrs, 4)
            m6 == PrimaryMatches(st, vm, attrs, 6)
            scan == TruthyStr(attrs, "primary_ip4") \/ TruthyStr(attrs, "primary_ip6")
            \* every match is assigned in turn: the one met last stays
            last4 == CHOOSE ip \in m4 :
                        \A other \in m4 \ {ip} : ScannedBefore(st, other, ip)
            last6 == CHOOSE ip \in m6 :
                        \A other \in m6 \ {ip} : ScannedBefore(st, other, ip)
            v5 == IF scan /\ m4 # {} THEN [v4 EXCEPT !.primary_ip4 = last4.pk] ELSE v4
            v6 == IF scan /\ m6 # {} THEN [v5 EXCEPT !.primary_ip6 = last6.pk] ELSE v5
        IN  IF use_clusters /\ TruthyStr(attrs, "cluster") /\ vm.cluster # attrs.cluster
            THEN \* a string assigned to the cluster foreign key
                 Raised(st, otd, lg, "ValueError")
            ELSE Returned(tag_object(st, "virtualmachine", v6), otd, lg)

---------------------------------------------------------------------------
(* DiffSyncVMInterface *)

\* The except clause names vm_interface, which get_or_create never bound.
VMInterface_create(st, otd, lg, ids, attrs) ==
    LET vms == Matching(st, "virtualmachine", [name |-> ids.virtual_machine])
        vm == CHOOSE v \in vms : TRUE
        fields == [name |-> ids.name, enabled |-> attrs.enabled,
                   virtual_machine |-> vm.pk, mac_address |-> attrs.mac_address]
        new == [name |-> ids.name, enabled |-> attrs.enabled,
                virtual_machine |-> vm.pk, mac_address |-> attrs.mac_address,
                tagged |-> FALSE]
        got == get_or_create(st, "vminterface", fields, new)
    IN  IF vms = {}
        THEN Raised(st, otd, lg, "VirtualMachine.DoesNotExist")
        ELSE IF Cardinality(vms) > 1
        THEN Raised(st, otd, lg, "MultipleObjectsReturned")
        ELSE IF got.status = "IntegrityError"
        THEN Caught(Raised(st, otd, lg, "UnboundLocalError"), "IntegrityError")
        ELSE Returned(tag_object(got.store, "vminterface", got.rec), otd, lg)

VMInterface_delete(st, otd, lg, self) ==
    LET valid == is_valid_mac(self.mac_address)
        vms == Matching(st, "virtualmachine", [name |-> self.virtual_machine])
        vm == CHOOSE v \in vms : TRUE
        byMac == Matching(st, "vminterface",
                     [name |-> self.name, virtual_machine |-> vm.pk,
                      mac_address |-> self.mac_address])
        byName == Matching(st, "vminterface",
                      [name |-> self.name, virtual_machine |-> vm.pk])
        found == IF valid.returned THEN byMac ELSE byName
    IN  IF valid.raised # NoException
        THEN Raised(st, otd, lg, valid.raised)
        ELSE IF vms = {}
        THEN Raised(st, otd, lg, "VirtualMachine.DoesNotExist")
        ELSE IF Cardinality(vms) > 1
        THEN Raised(st, otd, lg, "MultipleObjectsReturned")
        ELSE IF found = {}
        THEN Caught(ReturnedNone(st, otd,
                 Append(lg, Warning("Unable to match VMInterface by name", self.name))),
                 "DoesNotExist")
        ELSE ordered_delete(st, otd, lg, "vminterface", CHOOSE i \in found : TRUE)

VMInterface_update(st, otd, lg, self, attrs) ==
    LET vms == Matching(st, "virtualmachine", [name |-> self.virtual_machine])
        vm == CHOOSE v \in vms : TRUE
        found == Matching(st, "vminterface",
                     [name |-> self.name, virtual_machine |-> vm.pk])
    IN  IF vms = {}
        THEN Caught(ReturnedNone(st, otd,
                 Append(lg, Warning("Unable to match VM Interface by name", self.name))),
                 "DoesNotExist")
        ELSE IF Cardinality(vms) > 1
        THEN Raised(st, otd, lg, "MultipleObjectsReturned")
        ELSE IF found = {}
        THEN Raised(st, otd, lg, "VMInterface.DoesNotExist")
        ELSE
        LET iface == CHOOSE i \in found : TRUE
            i1 == IF TruthyBool(attrs, "enabled")
                  THEN [iface EXCEPT !.enabled = attrs.enabled] ELSE iface
            i2 == IF TruthyStr(attrs, "mac_address")
                  THEN [i1 EXCEPT !.mac_address = attrs.mac_address] ELSE i1
        IN  Returned(tag_object(st, "vminterface", i2), otd, lg)

---------------------------------------------------------------------------
(* DiffSyncIpAddress *)

\* The except clause names ip_address, which get_or_create never bound.
IpAddress_create(st, otd, lg, ids, attrs) ==
    LET vms == Matching(st, "virtualmachine", [name |-> attrs.vm_name])
        vm == CHOOSE v \in vms : TRUE
        interfaces == Matching(st, "vminterface",
                          [name |-> attrs.vm_interface_name, virtual_machine |-> vm.pk])
        interface == CHOOSE i \in interfaces : TRUE
        fields == [host |-> ids.ip_address, prefix_length |-> ids.prefix_length,
                   status |-> attrs.state]
        new == [host |-> ids.ip_address, prefix_length |-> ids.prefix_length,
                status |-> attrs.state, assigned |-> NoInterface, tagged |-> FALSE]
        got == get_or_create(st, "ipaddress", fields, new)
        \* interface.ip_addresses.add(ip_address); interface.validated_save()
        added == [got.rec EXCEPT !.assigned = interface.pk]
    IN  IF vms = {}
        THEN Raised(st, otd, lg, "VirtualMachine.DoesNotExist")
        ELSE IF Cardinality(vms) > 1
        THEN Raised(st, otd, lg, "MultipleObjectsReturned")
        ELSE IF interfaces = {}
        THEN Raised(st, otd, lg, "VMInterface.DoesNotExist")
        ELSE IF attrs.state \notin Statuses
        THEN Raised(st, otd, lg, "Status.DoesNotExist")
        ELSE IF got.status = "MultipleObjectsReturned"
        THEN Raised(st, otd, lg, "MultipleObjectsReturned")
        ELSE IF got.status = "IntegrityError"
        THEN Caught(Raised(st, otd, lg, "UnboundLocalError"), "IntegrityError")
        ELSE Returned(tag_object(got.store, "ipaddress", added), otd, lg)

IpAddress_delete(st, otd, lg, self) ==
    LET found == Matching(st, "ipaddress",
                     [host |-> self.ip_address, prefix_length |-> self.prefix_length])
    IN  IF found = {}
        THEN Caught(ReturnedNone(st, otd,
                 Append(lg, Warning("Unable to match IPAddress by host", self.ip_address))),
                 "DoesNotExist")
        ELSE IF Cardinality(found) > 1
        THEN Raised(st, otd, lg, "MultipleObjectsReturned")
        ELSE ordered_delete(st, otd, lg, "ipaddress", CHOOSE ip \in found : TRUE)

\* The method reads attrs.get("status"); the attribute of the model is "state".
IpAddress_update(st, otd, lg, self, attrs) ==
    LET found == Matching(st, "ipaddress",
                     [host |-> self.ip_address, prefix_length |-> self.prefix_length])
    IN  IF found = {}
        THEN Caught(ReturnedNone(st, otd,
                 Append(lg, Warning("Unable to match IPAddress by host", self.ip_address))),
                 "DoesNotExist")
        ELSE IF Cardinality(found) > 1
        THEN Raised(st, otd, lg, "MultipleObjectsReturned")
        ELSE IF TruthyStr(attrs, "status")
        THEN \* Status.objects.get(attrs["state"]): a positional string is no lookup
             Raised(st, otd, lg, IF HasKey(attrs, "state") THEN "ValueError" ELSE "KeyError")
        ELSE Returned(tag_object(st, "ipaddress", CHOOSE ip \in found : TRUE), otd, lg)

---------------------------------------------------------------------------
(* DiffSyncHost *)

\* The cluster is read from attrs whatever DEFAULT_USE_CLUSTERS says; only a
\* missing site is caught.
Host_create(st, otd, lg, ids, attrs) ==
    IF "Active" \notin Statuses
    THEN Raised(st, otd, lg, "Status.DoesNotExist")
    ELSE IF attrs.device_type \notin DeviceTypes
    THEN Raised(st, otd, lg, "DeviceType.DoesNotExist")
    ELSE IF attrs.device_role \notin DeviceRoles
    THEN Raised(st, otd, lg, "DeviceRole.DoesNotExist")
    ELSE IF ~HasKey(attrs, "cluster")
    THEN Raised(st, otd, lg, "KeyError")
    ELSE IF Matching(st, "cluster", [name |-> attrs.cluster]) = {}
    THEN Raised(st, otd, lg, "Cluster.DoesNotExist")
    ELSE IF attrs.site \notin Sites
    THEN Caught(Returned(st, otd, Append(lg, Warning("No site found", attrs.site))),
                "Site.DoesNotExist")
    ELSE
    \* Device.objects.update_or_create(name__iexact=..., defaults=...): the one
    \* row whose name is ids.name but for letter case takes the defaults, the
    \* name among them; without such a row a new one is made.
    LET found == {d \in st.device : iexact(d.name, ids.name)}
        values == [name |-> ids.name, status |-> "Active",
                   device_role |-> attrs.device_role, device_type |-> attrs.device_type,
                   cluster |-> attrs.cluster, site |-> attrs.site]
        old == CHOOSE d \in found : TRUE
        host == IF found = {}
                THEN values @@ [tagged |-> FALSE, pk |-> st.next_pk]
                ELSE values @@ [tagged |-> old.tagged, pk |-> old.pk]
        made == IF found = {} THEN [st EXCEPT !.next_pk = @ + 1] ELSE st
    IN  IF Cardinality(found) > 1
        THEN Raised(st, otd, lg, "MultipleObjectsReturned")
        ELSE Returned(tag_object(Save(made, "device", host), "device", host), otd, lg)

\* The except clause names VirtualMachine.DoesNotExist; a missing Device
\* raises Device.DoesNotExist.
Host_delete(st, otd, lg, self) ==
    LET found == Matching(st, "device", [name |-> self.name])
    IN  IF found = {}
        THEN Raised(st, otd, lg, "Device.DoesNotExist")
        ELSE IF Cardinality(found) > 1
        THEN Raised(st, otd, lg, "MultipleObjectsReturned")
        ELSE ordered_delete(st, otd, lg, "device", CHOOSE d \in found : TRUE)

Host_update(st, otd, lg, self, attrs) ==
    LET found == Matching(st, "device", [name |-> self.name])
    IN  IF found = {}
        THEN Raised(st, otd, lg, "Device.DoesNotExist")
        ELSE IF Cardinality(found) > 1
        THEN Raised(st, otd, lg, "MultipleObjectsReturned")
        ELSE IF TruthyStr(attrs, "device_type") /\ attrs.device_type \notin DeviceTypes
        THEN Raised(st, otd, lg, "DeviceType.DoesNotExist")
        ELSE IF TruthyStr(attrs, "device_role") /\ attrs.device_role \notin DeviceRoles
        THEN Raised(st, otd, lg, "DeviceRole.DoesNotExist")
        ELSE IF TruthyStr(attrs, "cluster")
                /\ Matching(st, "cluster", [name |-> attrs.cluster]) = {}
        THEN Raised(st, otd, lg, "Cluster.DoesNotExist")
        ELSE
        LET host == CHOOSE d \in found : TRUE
            h1 == IF TruthyStr(attrs, "device_type")
                  THEN [host EXCEPT !.device_type = attrs.device_type] ELSE host
            h2 == IF TruthyStr(attrs, "device_role")
                  THEN [h1 EXCEPT !.device_role = attrs.device_role] ELSE h1
            h3 == IF TruthyStr(attrs, "cluster")
                  THEN [h2 EXCEPT !.cluster = attrs.cluster] ELSE h2
        IN  Returned(tag_object(st, "device", h3), otd, lg)

---------------------------------------------------------------------------
(* The six models: _modelname, _identifiers, _attributes, and dispatch *)

Kinds == {"diffsync_clustergroup", "diffsync_cluster", "diffsync_virtual_machine",
          "diffsync_vminterface", "diffsync_ipaddress", "diffsync_host"}

_identifiers(kind) ==
    CASE kind = "diffsync_vminterface" -> {"name", "virtual_machine"}
      [] kind = "diffsync_ipaddress" -> {"ip_address", "prefix_length", "mac_address"}
      [] OTHER -> {"name"}

\* cluster is an attribute of a virtual machine and of a host only when
\* DEFAULT_USE_CLUSTERS is set.
AttributesOf(kind, flag) ==
    CASE kind = "diffsync_clustergroup" -> {}
      [] kind = "diffsync_cluster" -> {"cluster_type", "group"}
      [] kind = "diffsync_vminterface" -> {"enabled", "mac_address"}
      [] kind = "diffsync_ipaddress" -> {"state", "vm_interface_name", "vm_name"}
      [] kind = "diffsync_virtual_machine" ->
            IF flag
            THEN {"status", "vcpus", "memory", "disk", "cluster", "primary_ip4",
                  "primary_ip6"}
            ELSE {"status", "vcpus", "memory", "disk", "primary_ip4", "primary_ip6"}
      [] kind = "diffsync_host" ->
            IF flag
            THEN {"device_role", "device_type", "site", "cluster"}
            ELSE {"device_role", "device_type", "site"}

_attributes(kind) == AttributesOf(kind, use_clusters)

\* The table of the Nautobot model a DiffSync model writes.
TableOf(kind) ==
    CASE kind = "diffsync_clustergroup" -> "clustergroup"
      [] kind = "diffsync_cluster" -> "cluster"
      [] kind = "diffsync_virtual_machine" -> "virtualmachine"
      [] kind = "diffsync_vminterface" -> "vminterface"
      [] kind = "diffsync_ipaddress" -> "ipaddress"
      [] kind = "diffsync_host" -> "device"

\* The identifiers of a node.
IdsOf(kind, node) == Restrict(node, _identifiers(kind))

\* The rows delete() finds for a node: an interface is looked up on the
\* virtual machine of its name, with its MAC address when that is a valid
\* one, and not at all when is_valid_mac raises.
RecordsOf(st, kind, node) ==
    CASE kind = "diffsync_vminterface" ->
            LET valid == is_valid_mac(node.mac_address)
                vms == Matching(st, "virtualmachine", [name |-> node.virtual_machine])
                named == {i \in st.vminterface :
                             /\ i.name = node.name
                             /\ \E vm \in vms : i.virtual_machine = vm.pk}
            IN  IF valid.raised # NoException \/ Cardinality(vms) > 1 THEN {}
                ELSE IF valid.returned
                THEN {i \in named : i.mac_address = node.mac_address}
                ELSE named
      [] kind = "diffsync_ipaddress" ->
            Matching(st, "ipaddress",
                [host |-> node.ip_address, prefix_length |-> node.prefix_length])
      [] OTHER -> Matching(st, TableOf(kind), [name |-> node.name])

create(kind, st, otd, lg, ids, attrs) ==
    CASE kind = "diffsync_clustergroup" -> ClusterGroup_create(st, otd, lg, ids, attrs)
      [] kind = "diffsync_cluster" -> Cluster_create(st, otd, lg, ids, attrs)
      [] kind = "diffsync_virtual_machine" -> VirtualMachine_create(st, otd, lg, ids, attrs)
      [] kind = "diffsync_vminterface" -> VMInterface_create(st, otd, lg, ids, attrs)
      [] kind = "diffsync_ipaddress" -> IpAddress_create(st, otd, lg, ids, attrs)
      [] kind = "diffsync_host" -> Host_create(st, otd, lg, ids, attrs)

\* DiffSyncClusterGroup defines no update: DiffSyncModel.update returns self.
update(kind, st, otd, lg, self, attrs) ==
    CASE kind = "diffsync_clustergroup" -> Returned(st, otd, lg)
      [] kind = "diffsync_cluster" -> Cluster_update(st, otd, lg, self, attrs)
      [] kind = "diffsync_virtual_machine" -> VirtualMachine_update(st, otd, lg, self, attrs)
      [] kind = "diffsync_vminterface" -> VMInterface_update(st, otd, lg, self, attrs)
      [] kind = "diffsync_ipaddress" -> IpAddress_update(st, otd, lg, self, attrs)
      [] kind = "diffsync_host" -> Host_update(st, otd, lg, self, attrs)

delete(kind, st, otd, lg, self) ==
    CASE kind = "diffsync_clustergroup" -> ClusterGroup_delete(st, otd, lg, self)
      [] kind = "diffsync_cluster" -> Cluster_delete(st, otd, lg, self)
      [] kind = "diffsync_virtual_machine" -> VirtualMachine_delete(st, otd, lg, self)
      [] kind = "diffsync_vminterface" -> VMInterface_delete(st, otd, lg, self)
      [] kind = "diffsync_ipaddress" -> IpAddress_delete(st, otd, lg, self)
      [] kind = "diffsync_host" -> Host_delete(st, otd, lg, self)

---------------------------------------------------------------------------
(* The values the handlers are called with *)

\* The largest vcpus count of a virtual machine.
MaxVcpus == 2

GroupNames == {<<"G", " ", "1">>, <<"g", "-", "1">>}

Macs == ValidMacs \cup {"", None}

EmptyTree == [k \in Kinds |-> {}]

\* Every node of a kind: its identifiers and its attributes.
NodeSpace(kind) ==
    CASE kind = "diffsync_clustergroup" -> [name : GroupNames]
      [] kind = "diffsync_cluster" ->
            [name : {"c1"}, cluster_type : {DEFAULT_VSPHERE_TYPE},
             group : GroupNames \cup {NoGroup}]
      [] kind = "diffsync_virtual_machine" ->
            IF use_clusters
            THEN [name : {"vm1"}, status : {"Active", "Offline", "Staged"},
                  vcpus : 0..MaxVcpus, memory : {0, 2048}, disk : {50},
                  cluster : {"c1", "c9"},
                  primary_ip4 : {None, "10.0.0.1"}, primary_ip6 : {None, "fd00::1"}]
            ELSE [name : {"vm1"}, status : {"Active", "Offline", "Staged"},
                  vcpus : 0..MaxVcpus, memory : {0, 2048}, disk : {50},
                  primary_ip4 : {None, "10.0.0.1"}, primary_ip6 : {None, "fd00::1"}]
      [] kind = "diffsync_vminterface" ->
            [name : {"eth0"}, virtual_machine : {"vm1"}, enabled : BOOLEAN,
             mac_address : Macs]
      [] kind = "diffsync_ipaddress" ->
            [ip_address : {"10.0.0.1", "fd00::1"}, prefix_length : {24},
             mac_address : ValidMacs, state : {"Active", "Offline", "Bogus"},
             vm_interface_name : {"eth0", None}, vm_name : {"vm1", None}]
      [] kind = "diffsync_host" ->
            IF use_clusters
            THEN [name : {<<"h", "1">>, <<"h", "2">>, <<"H", "1">>}, device_role : {"hypervisor", "storage"},
                  device_type : {"esx", "kvm", "hyperv"}, site : {"gtn", "unknown"},
                  cluster : {"c1", "c9"}]
            ELSE [name : {<<"h", "1">>, <<"h", "2">>, <<"H", "1">>}, device_role : {"hypervisor", "storage"},
                  device_type : {"esx", "kvm", "hyperv"}, site : {"gtn", "unknown"}]

\* Whether the tree holds a node of these identifiers.
InTree(tree, kind, ids) == \E n \in tree[kind] : IdsOf(kind, n) = ids

---------------------------------------------------------------------------
(* The target adapter: load, objects_to_delete, sync_complete *)

\* The host of the address a primary pointer names, or None.
PrimaryHost(st, ptr) ==
    LET found == WithPk(st, "ipaddress", ptr)
    IN  IF found = {} THEN None ELSE (CHOOSE ip \in found : TRUE).host

\* The MAC address of the interface an address is assigned to, or None.
MacOfInterface(st, assigned) ==
    LET found == WithPk(st, "vminterface", assigned)
    IN  IF found = {} THEN None ELSE (CHOOSE i \in found : TRUE).mac_address

\* The node load() builds from one row: its identifiers and attributes.
NodeOf(st, kind, row, flag) ==
    LET \* the name of the row a foreign key refers to, or None
        NameOf(table, pk) ==
            IF WithPk(st, table, pk) = {} THEN None
            ELSE (CHOOSE r \in WithPk(st, table, pk) : TRUE).name
        \* the virtual machine of the interface an address is assigned to
        Owner(pk) ==
            IF WithPk(st, "vminterface", pk) = {} THEN NoInterface
            ELSE (CHOOSE i \in WithPk(st, "vminterface", pk) : TRUE).virtual_machine
    IN
    CASE kind = "diffsync_clustergroup" -> [name |-> row.name]
      [] kind = "diffsync_cluster" ->
            [name |-> row.name, cluster_type |-> row.type, group |-> row.group]
      [] kind = "diffsync_virtual_machine" ->
            LET base == [name |-> row.name, status |-> row.status, vcpus |-> row.vcpus,
                         memory |-> row.memory, disk |-> row.disk,
                         primary_ip4 |-> PrimaryHost(st, row.primary_ip4),
                         primary_ip6 |-> PrimaryHost(st, row.primary_ip6)]
            IN  IF flag THEN base @@ [cluster |-> row.cluster] ELSE base
      [] kind = "diffsync_vminterface" ->
            [name |-> row.name,
             virtual_machine |-> NameOf("virtualmachine", row.virtual_machine),
             enabled |-> row.enabled, mac_address |-> row.mac_address]
      [] kind = "diffsync_ipaddress" ->
            [ip_address |-> row.host, prefix_length |-> row.prefix_length,
             mac_address |-> MacOfInterface(st, row.assigned),
             state |-> row.status,
             vm_interface_name |-> NameOf("vminterface", row.assigned),
             vm_name |-> NameOf("virtualmachine", Owner(row.assigned))]
      [] kind = "diffsync_host" ->
            LET base == [name |-> row.name, device_role |-> row.device_role,
                         device_type |-> row.device_type, site |-> row.site]
            IN  IF flag THEN base @@ [cluster |-> row.cluster] ELSE base

\* load(): the target tree, one node per row of the store.
Load(st, flag) ==
    [k \in Kinds |-> {NodeOf(st, k, row, flag) : row \in st[TableOf(k)]}]

\* objects_to_delete = defaultdict(list)
EmptyBuckets == [b \in BucketKeys |-> <<>>]

\* sync_complete(): the buckets in the order they are flushed, the most
\* dependent kind first; virtual machines and hosts share a place.
FlushOrder ==
    <<{"_ipaddress"}, {"_vminterface"}, {"_virtualmachine", "_device"},
      {"_cluster"}, {"_clustergroup"}>>

\* The first place of the flush order that still holds an object.
NextPlace(otd) ==
    CHOOSE r \in 1..Len(FlushOrder) :
        /\ \E b \in FlushOrder[r] : otd[b] # <<>>
        /\ \A q \in 1..(r - 1) : \A b \in FlushOrder[q] : otd[b] = <<>>

\* Whether a row is still referred to: an address refers to its interface,
\* an interface to its virtual machine, a virtual machine or a host to its
\* cluster, a cluster to its group.
Referenced(st, table, rec) ==
    CASE table = "vminterface" ->
            \E ip \in st.ipaddress : ip.assigned = rec.pk
      [] table = "virtualmachine" ->
            \E i \in st.vminterface : i.virtual_machine = rec.pk
      [] table = "cluster" ->
            \/ \E v \in st.virtualmachine : v.cluster = rec.name
            \/ \E d \in st.device : d.cluster = rec.name
      [] table = "clustergroup" -> \E c \in st.cluster : c.group = rec.name
      [] OTHER -> FALSE

---------------------------------------------------------------------------
(* One handler call, as the DiffSync engine makes it *)

NoCall ==
    [op |-> "none", kind |-> "none", ids |-> <<>>, attrs |-> <<>>,
     returned |-> "none", met |-> NoException, store |-> EmptyStore, objects_to_delete |-> EmptyBuckets,
     nodes |-> EmptyTree, log |-> <<>>]

\* The call and the state it started from.
CallRecord(op, kind, ids, attrs, result) ==
    [op |-> op, kind |-> kind, ids |-> ids, attrs |-> attrs,
     returned |-> result.returned, met |-> result.met, store |-> store,
     objects_to_delete |-> objects_to_delete, nodes |-> nodes, log |-> log]

\* What a handler's result does to the state outside the tree.
Effects(op, kind, ids, attrs, result) ==
    /\ store' = result.store
    /\ objects_to_delete' = result.objects_to_delete
    /\ log' = result.log
    /\ raised' = result.raised
    /\ processed' = [processed EXCEPT ![kind] = @ \cup {ids}]
    /\ last' = CallRecord(op, kind, ids, attrs, result)

\* create() returned cls(**ids, **attrs): the engine adds it to the tree.
CallCreate(kind, ids, attrs) ==
    LET result == create(kind, store, objects_to_delete, log, ids, attrs)
    IN  /\ Effects("create", kind, ids, attrs, result)
        /\ nodes' = IF result.returned = "model"
                    THEN [nodes EXCEPT ![kind] = @ \cup {ids @@ attrs}]
                    ELSE nodes

\* super().update(attrs) sets the attributes of the node.
CallUpdate(kind, self, attrs) ==
    LET result == update(kind, store, objects_to_delete, log, self, attrs)
    IN  /\ Effects("update", kind, IdsOf(kind, self), attrs, result)
        /\ nodes' = IF result.returned = "model"
                    THEN [nodes EXCEPT ![kind] = (@ \ {self}) \cup {MergeAttrs(self, attrs)}]
                    ELSE nodes

\* delete() returned self: the engine removes the node from the tree.
CallDelete(kind, self) ==
    LET result == delete(kind, store, objects_to_delete, log, self)
    IN  /\ Effects("delete", kind, IdsOf(kind, self), <<>>, result)
        /\ nodes' = IF result.returned = "model"
                    THEN [nodes EXCEPT ![kind] = @ \ {self}]
                    ELSE nodes

\* The objects still filed for deletion.
Pending(otd) == \E b \in BucketKeys : otd[b] # <<>>

\* sync_complete() deletes one filed object, from the first place of the
\* flush order that holds any; an object already gone is logged and skipped.
FlushOne ==
    /\ Pending(objects_to_delete)
    /\ \E b \in FlushOrder[NextPlace(objects_to_delete)] :
          /\ objects_to_delete[b] # <<>>
          /\ LET obj == Head(objects_to_delete[b])
                 present == WithPk(store, obj.table, obj.rec.pk) # {}
             IN  /\ store' = Remove(store, obj.table, obj.rec)
                 /\ deleted' = Append(deleted,
                        [table |-> obj.table, pk |-> obj.rec.pk, found |-> present,
                         referenced |-> Referenced(store, obj.table, obj.rec)])
                 /\ log' = IF present THEN log
                           ELSE Append(log, Warning("Object to delete not found",
                                                    obj.rec.pk))
                 /\ objects_to_delete' = [objects_to_delete EXCEPT ![b] = Tail(@)]

---------------------------------------------------------------------------
(* Handler calls on a given store and target tree *)

TypeRow == [pk |-> 1, name |-> DEFAULT_VSPHERE_TYPE, tagged |-> TRUE]

GroupRow ==
    [pk |-> 2, name |-> <<"g", "-", "1">>, slug |-> <<"g", "-", "1">>, tagged |-> TRUE]

ClusterRow ==
    [pk |-> 3, name |-> "c1", type |-> DEFAULT_VSPHERE_TYPE,
     group |-> <<"g", "-", "1">>, tagged |-> TRUE]

VMRow ==
    [pk |-> 4, name |-> "vm1", status |-> "Active", cluster |-> "c1", vcpus |-> 1,
     memory |-> 2048, disk |-> 50, primary_ip4 |-> NoIP, primary_ip6 |-> NoIP,
     tagged |-> TRUE]

\* The interface eth0 of the virtual machine VMRow.
InterfaceRow(mac) ==
    [pk |-> 5, name |-> "eth0", virtual_machine |-> 4, enabled |-> TRUE,
     mac_address |-> mac, tagged |-> TRUE]

\* An address on the interface InterfaceRow.
AddressRow ==
    [pk |-> 6, host |-> "10.0.0.1", prefix_length |-> 24, status |-> "Active",
     assigned |-> 5, tagged |-> TRUE]

DeviceRow ==
    [pk |-> 7, name |-> <<"h", "1">>, status |-> "Active", device_role |-> "hypervisor",
     device_type |-> "esx", cluster |-> "c1", site |-> "gtn", tagged |-> TRUE]

\* A store that an earlier reconciliation filled.
ChainStore(mac) ==
    [clustergroup |-> {GroupRow}, clustertype |-> {TypeRow}, cluster |-> {ClusterRow},
     virtualmachine |-> {VMRow}, vminterface |-> {InterfaceRow(mac)},
     ipaddress |-> {AddressRow}, device |-> {DeviceRow}, next_pk |-> 8]

ClusterStore ==
    [EmptyStore EXCEPT !.clustergroup = {GroupRow}, !.clustertype = {TypeRow},
                       !.cluster = {ClusterRow}, !.next_pk = 4]

\* A virtual machine with two interfaces: 10.0.0.1 stands on eth0 with the
\* prefix lengths 25 and 26 and on eth1 with 24; 10.0.0.2, on eth0, is its
\* primary IPv4 address, and eth0 has an IPv6 address.
AddressesStore ==
    [EmptyStore EXCEPT
        !.clustertype = {TypeRow},
        !.cluster = {[ClusterRow EXCEPT !.group = NoGroup]},
        !.virtualmachine = {[VMRow EXCEPT !.primary_ip4 = 11]},
        !.vminterface = {InterfaceRow("00:50:56:00:00:01"),
                         [InterfaceRow("00:50:56:00:00:02") EXCEPT
                             !.pk = 8, !.name = "eth1"]},
        !.ipaddress = {[AddressRow EXCEPT !.assigned = 8],
                       [AddressRow EXCEPT !.pk = 9, !.prefix_length = 25],
                       [AddressRow EXCEPT !.pk = 10, !.prefix_length = 26],
                       [AddressRow EXCEPT !.pk = 11, !.host = "10.0.0.2"],
                       [AddressRow EXCEPT !.pk = 12, !.host = "fd00::1"]},
        !.next_pk = 13]

Seeds == {"empty", "clusters", "synced", "synced, no MAC", "not loaded",
          "rows gone", "interface gone", "addresses"}

\* The store a run starts on.
SeedStore(seed) ==
    CASE seed = "empty" -> EmptyStore
      [] seed = "clusters" -> ClusterStore
      [] seed = "synced" -> ChainStore("00:50:56:00:00:01")
      [] seed = "synced, no MAC" -> ChainStore(None)
      [] seed = "not loaded" ->
            [ChainStore("00:50:56:00:00:01") EXCEPT
                !.clustertype = {TypeRow, [pk |-> 8, name |-> "Other", tagged |-> FALSE]},
                !.cluster = {[ClusterRow EXCEPT !.type = "Other"]},
                !.next_pk = 9]
      [] seed = "rows gone" -> EmptyStore
      [] seed = "interface gone" ->
            [ChainStore("00:50:56:00:00:01") EXCEPT !.vminterface = {}, !.ipaddress = {}]
      [] seed = "addresses" -> AddressesStore

\* The target tree of that run: loaded from the store, from nothing, or
\* from rows that have gone since.
SeedTree(seed, flag) ==
    CASE seed \in {"empty", "clusters", "synced", "synced, no MAC", "addresses"} ->
            Load(SeedStore(seed), flag)
      [] seed = "not loaded" -> EmptyTree
      [] seed \in {"rows gone", "interface gone"} ->
            Load(ChainStore("00:50:56:00:00:01"), flag)

Init ==
    /\ use_clusters \in BOOLEAN
    /\ classified = NotClassified
    /\ \E seed \in Seeds :
          /\ initial = SeedStore(seed)
          /\ store = SeedStore(seed)
          /\ nodes = SeedTree(seed, use_clusters)
    /\ objects_to_delete = EmptyBuckets
    /\ log = <<>>
    /\ raised = NoException
    /\ source = <<>>
    /\ pass = 0
    /\ queue = <<>>
    /\ phase = "walk"
    /\ deleted = <<>>
    /\ processed = EmptyTree
    /\ last = NoCall

Walking == phase = "walk" /\ raised = NoException

\* The engine calls create() for a source node the target tree lacks.
Create ==
    /\ Walking /\ last.op = "none"
    /\ \E kind \in Kinds : \E n \in NodeSpace(kind) :
          /\ ~InTree(nodes, kind, IdsOf(kind, n))
          /\ CallCreate(kind, IdsOf(kind, n), Restrict(n, _attributes(kind)))
    /\ UNCHANGED <<use_clusters, initial, classified, source, pass, queue, phase, deleted>>

\* The engine calls update() with the attributes that differ.
Update ==
    /\ Walking /\ last.op = "none"
    /\ \E kind \in Kinds : \E self \in nodes[kind] : \E n \in NodeSpace(kind) :
       \E keys \in SUBSET _attributes(kind) :
          /\ keys # {}
          /\ IdsOf(kind, n) = IdsOf(kind, self)
          /\ CallUpdate(kind, self, Restrict(n, keys))
    /\ UNCHANGED <<use_clusters, initial, classified, source, pass, queue, phase, deleted>>

\* The engine calls delete() for a target node the source tree lacks.
Delete ==
    /\ Walking /\ last.op \in {"none", "delete"}
    /\ \E kind \in Kinds : \E self \in nodes[kind] :
          /\ IdsOf(kind, self) \notin processed[kind]
          /\ CallDelete(kind, self)
    /\ UNCHANGED <<use_clusters, initial, classified, source, pass, queue, phase, deleted>>

\* The walk is over and nothing was raised: sync_complete() begins.
EndWalk ==
    /\ Walking /\ last.op # "none"
    /\ phase' = "flush"
    /\ UNCHANGED <<use_clusters, initial, classified, store, nodes, objects_to_delete, log, raised, source,
                   pass, queue, deleted, processed, last>>

Flush ==
    /\ phase = "flush"
    /\ FlushOne
    /\ UNCHANGED <<use_clusters, initial, classified, nodes, raised, source, pass, queue, phase, processed,
                   last>>

EndFlush ==
    /\ phase = "flush"
    /\ ~Pending(objects_to_delete)
    /\ phase' = "done"
    /\ UNCHANGED <<use_clusters, initial, classified, store, nodes, objects_to_delete, log, raised, source,
                   pass, queue, deleted, processed, last>>

Next == Create \/ Update \/ Delete \/ EndWalk \/ Flush \/ EndFlush

Spec == Init /\ [][Next]_vars

---------------------------------------------------------------------------
(* A reconciliation: load, diff, walk, flush, pass after pass *)

\* The kinds in the order the walk meets them, a parent before its children.
WalkOrder ==
    <<"diffsync_clustergroup", "diffsync_cluster", "diffsync_virtual_machine",
      "diffsync_vminterface", "diffsync_ipaddress", "diffsync_host">>

\* The kinds below a kind in the tree, by _children: a cluster group has
\* children only under ENFORCE_CLUSTER_GROUP_TOP_LEVEL.
Below(kind) ==
    CASE kind = "diffsync_clustergroup" ->
            IF ENFORCE_CLUSTER_GROUP_TOP_LEVEL
            THEN Kinds \ {"diffsync_clustergroup"}
            ELSE {}
      [] kind = "diffsync_cluster" ->
            {"diffsync_virtual_machine", "diffsync_vminterface", "diffsync_ipaddress",
             "diffsync_host"}
      [] kind = "diffsync_virtual_machine" -> {"diffsync_vminterface", "diffsync_ipaddress"}
      [] kind = "diffsync_vminterface" -> {"diffsync_ipaddress"}
      [] OTHER -> {}

RECURSIVE SeqOf(_)
\* The elements of a set, one after another.
SeqOf(S) ==
    IF S = {} THEN <<>>
    ELSE LET e == CHOOSE x \in S : TRUE IN <<e>> \o SeqOf(S \ {e})

\* The diff elements of one kind: create for a source node the target lacks,
\* update for one whose attributes differ, delete for a target node the
\* source lacks.
ElementsOf(kind, src, dst) ==
    LET creates == {n \in src[kind] : ~InTree(dst, kind, IdsOf(kind, n))}
        updates == {n \in src[kind] :
                       \E t \in dst[kind] : IdsOf(kind, t) = IdsOf(kind, n) /\ t # n}
        deletes == {t \in dst[kind] : ~InTree(src, kind, IdsOf(kind, t))}
    IN  SeqOf({[op |-> "create", kind |-> kind, node |-> n] : n \in creates}
              \cup {[op |-> "update", kind |-> kind, node |-> n] : n \in updates}
              \cup {[op |-> "delete", kind |-> kind, node |-> n] : n \in deletes})

RECURSIVE DiffFrom(_, _, _)
DiffFrom(i, src, dst) ==
    IF i > Len(WalkOrder) THEN <<>>
    ELSE ElementsOf(WalkOrder[i], src, dst) \o DiffFrom(i + 1, src, dst)

\* The diff of the source tree against the target tree, in walk order.
Diff(src, dst) == DiffFrom(1, src, dst)

\* The elements still to visit after one whose handler returned this: no
\* model back means the engine does not process the element's children.
Rest(kind, returned) ==
    IF returned = "model" THEN Tail(queue)
    ELSE SelectSeq(Tail(queue), LAMBDA e : e.kind \notin Below(kind))

GroupNode == [name |-> <<"g", "-", "1">>]

ClusterNode ==
    [name |-> "c1", cluster_type |-> DEFAULT_VSPHERE_TYPE, group |-> <<"g", "-", "1">>]

InCluster(node, flag) == IF flag THEN node @@ [cluster |-> "c1"] ELSE node

VMNode(status, primary, flag) ==
    InCluster([name |-> "vm1", status |-> status, vcpus |-> 1, memory |-> 2048,
               disk |-> 50, primary_ip4 |-> primary, primary_ip6 |-> None], flag)

\* mac_address is Optional[str]: an interface may have none.
InterfaceNode(enabled, mac) ==
    [name |-> "eth0", virtual_machine |-> "vm1", enabled |-> enabled,
     mac_address |-> mac]

\* The address carries the MAC address of its interface.
AddressNode(mac) ==
    [ip_address |-> "10.0.0.1", prefix_length |-> 24,
     mac_address |-> mac, state |-> "Active",
     vm_interface_name |-> "eth0", vm_name |-> "vm1"]

HostChoices == {"none", "good", "no site", "no type"}

HostNode(name, choice, flag) ==
    InCluster([name |-> name, device_role |-> "hypervisor",
               device_type |-> IF choice = "no type" THEN "hyperv" ELSE "esx",
               site |-> IF choice = "no site" THEN "unknown" ELSE "gtn"], flag)

\* The source tree a choice of its parts gives.
SourceTree(p, flag) ==
    [diffsync_clustergroup |-> {GroupNode},
     diffsync_cluster |-> {ClusterNode},
     diffsync_virtual_machine |->
        IF p.vm = "none" THEN {} ELSE {VMNode(p.vm, p.primary, flag)},
     diffsync_vminterface |->
        IF p.vm = "none" THEN {} ELSE {InterfaceNode(p.enabled, p.mac)},
     diffsync_ipaddress |-> IF p.vm = "none" THEN {} ELSE {AddressNode(p.mac)},
     diffsync_host |->
        (IF p.h1 = "none" THEN {} ELSE {HostNode(<<"h", "1">>, p.h1, flag)})
        \cup (IF p.h2 = "none" THEN {} ELSE {HostNode(<<"h", "2">>, p.h2, flag)})]

SourceTrees(flag) ==
    {SourceTree(p, flag) :
        p \in [vm : {"none", "Active", "Staged"}, primary : {None, "10.0.0.1"},
               enabled : BOOLEAN, mac : {"00:50:56:00:00:01", None},
               h1 : HostChoices, h2 : HostChoices]}

InitSync ==
    /\ use_clusters \in BOOLEAN
    /\ classified = NotClassified
    /\ initial \in {EmptyStore, ClusterStore, ChainStore("00:50:56:00:00:01")}
    /\ store = initial
    /\ \E t \in SourceTrees(use_clusters) : source \in {<<t, t>>, <<t, EmptyTree>>}
    /\ pass = 0
    /\ phase = "load"
    /\ nodes = EmptyTree
    /\ queue = <<>>
    /\ objects_to_delete = EmptyBuckets
    /\ log = <<>>
    /\ raised = NoException
    /\ deleted = <<>>
    /\ processed = EmptyTree
    /\ last = NoCall

\* A pass begins: the target adapter loads the store and the diff is taken.
StartPass ==
    /\ phase = "load"
    /\ pass' = pass + 1
    /\ nodes' = Load(store, use_clusters)
    /\ queue' = Diff(source[pass + 1], Load(store, use_clusters))
    /\ objects_to_delete' = EmptyBuckets
    /\ log' = <<>>
    /\ deleted' = <<>>
    /\ processed' = EmptyTree
    /\ last' = NoCall
    /\ phase' = "walk"
    /\ UNCHANGED <<use_clusters, initial, classified, store, raised, source>>

\* The walk visits a create element.
SyncCreate ==
    /\ Walking /\ queue # <<>> /\ Head(queue).op = "create"
    /\ LET kind == Head(queue).kind
           ids == IdsOf(kind, Head(queue).node)
           attrs == Restrict(Head(queue).node, _attributes(kind))
       IN  /\ CallCreate(kind, ids, attrs)
           /\ queue' = Rest(kind,
                  create(kind, store, objects_to_delete, log, ids, attrs).returned)
    /\ UNCHANGED <<use_clusters, initial, classified, source, pass, phase, deleted>>

\* The walk visits an update element: update() gets the attributes that differ.
SyncUpdate ==
    /\ Walking /\ queue # <<>> /\ Head(queue).op = "update"
    /\ LET kind == Head(queue).kind
           node == Head(queue).node
           self == CHOOSE t \in nodes[kind] : IdsOf(kind, t) = IdsOf(kind, node)
           attrs == Restrict(node, {k \in _attributes(kind) : node[k] # self[k]})
       IN  /\ CallUpdate(kind, self, attrs)
           /\ queue' = Rest(kind,
                  update(kind, store, objects_to_delete, log, self, attrs).returned)
    /\ UNCHANGED <<use_clusters, initial, classified, source, pass, phase, deleted>>

\* The walk visits a delete element.
SyncDelete ==
    /\ Walking /\ queue # <<>> /\ Head(queue).op = "delete"
    /\ LET kind == Head(queue).kind
           self == Head(queue).node
       IN  /\ CallDelete(kind, self)
           /\ queue' = Rest(kind,
                  delete(kind, store, objects_to_delete, log, self).returned)
    /\ UNCHANGED <<use_clusters, initial, classified, source, pass, phase, deleted>>

\* The walk has visited every element: sync_complete() begins.
SyncEndWalk ==
    /\ Walking /\ queue = <<>>
    /\ phase' = "flush"
    /\ UNCHANGED <<use_clusters, initial, classified, store, nodes, objects_to_delete, log, raised,
                   source, pass, queue, deleted, processed, last>>

\* The flush is over: the next pass, if there is one.
SyncEndFlush ==
    /\ phase = "flush"
    /\ ~Pending(objects_to_delete)
    /\ phase' = IF pass < Len(source) THEN "load" ELSE "done"
    /\ UNCHANGED <<use_clusters, initial, classified, store, nodes, objects_to_delete, log, raised,
                   source, pass, queue, deleted, processed, last>>

NextSync ==
    StartPass \/ SyncCreate \/ SyncUpdate \/ SyncDelete \/ SyncEndWalk \/ Flush
        \/ SyncEndFlush

SpecSync == InitSync /\ [][NextSync]_vars

---------------------------------------------------------------------------
(* Calls of the classifier on organizations and device names *)

\* How an organization begins.
OrganizationHeads ==
    {<<>>,
     <<"J", "U", "P", "I", "T", "E", "R">>,
     <<"j", "u", "p", "i", "t", "e", "r">>,
     <<"J", "U", "P", "2">>,
     <<"J", "1">>,
     <<"J", "3">>,
     <<"T", "1", "9">>,
     <<"G", "T", "N">>,
     <<"R", "O", "W">>,
     <<"F", "u", "s", "i", "o", "n">>,
     <<"A", "C", "M", "E">>}

\* How an organization goes on.
OrganizationTails ==
    {<<>>,
     <<" ">>,
     <<"-">>,
     <<"-", "G", "T", "N">>,
     <<" ", "G", "T", "N">>,
     <<"-", "G", "T", "N", " ", "r", "f", "g", "w">>,
     <<" ", "2">>,
     <<"-", "N", "M", "S">>,
     <<" ", "D", "e", "t", "r", "o", "i", "t">>,
     <<" ", "V", "e", "g", "a", "s">>,
     <<"\n">>,
     <<"-", "A", " ", "B">>}

\* How a device name begins.
DeviceNameHeads ==
    {<<>>,
     <<"G", "T", "N">>,
     <<"g", "t", "n">>,
     <<"D", "E", "T">>,
     <<"N", "L", "V">>,
     <<"N", "V", "X">>,
     <<"J", "1">>,
     <<"J", "2">>,
     <<"J", "3">>,
     <<"x">>,
     <<"V", "M", "W", "H", "N">>}

\* How a device name goes on.
DeviceNameTails ==
    {<<>>,
     <<"-", "a", "c", "5">>,
     <<"S", "E", "A">>,
     <<"-", "G", "I", "L", "-", "S", "W", "A">>,
     <<"b", "1", "2">>,
     <<"-", "e", "s", "x", "1">>,
     <<"s", "v", "8">>}

Organizations == {head \o tail : head \in OrganizationHeads, tail \in OrganizationTails}

DeviceNames == {head \o tail : head \in DeviceNameHeads, tail \in DeviceNameTails}

\* The device names an organization is paired with.
PairedDeviceNames == {head \o tail : head \in DeviceNameHeads, tail \in {<<>>, <<"S", "E", "A">>}}

\* The classifier is called on its own: no job runs.
InitClassifier ==
    /\ use_clusters = FALSE
    /\ initial = EmptyStore
    /\ classified = NotClassified
    /\ store = EmptyStore
    /\ nodes = EmptyTree
    /\ objects_to_delete = EmptyBuckets
    /\ log = <<>>
    /\ raised = NoException
    /\ source = <<>>
    /\ pass = 0
    /\ queue = <<>>
    /\ phase = "done"
    /\ deleted = <<>>
    /\ processed = EmptyTree
    /\ last = NoCall

\* One call in a run.

\* The job's state is left alone.
NoJob ==
    UNCHANGED <<use_clusters, initial, store, nodes, objects_to_delete, log, raised,
                source, pass, queue, phase, deleted, processed, last>>

ParseOrganization ==
    /\ classified = NotClassified
    /\ \E organization \in Organizations :
          classified' = [fn |-> "parse_organization_for_site_service",
                         organization |-> organization, device_name |-> <<>>,
                         result |-> parse_organization_for_site_service(organization)]
    /\ NoJob

ParseNameForSite ==
    /\ classified = NotClassified
    /\ \E device_name \in DeviceNames :
          classified' = [fn |-> "parse_name_for_site",
                         organization |-> <<>>, device_name |-> device_name,
                         result |-> Classified(<<>>, parse_name_for_site(device_name))]
    /\ NoJob

ParseNameForService ==
    /\ classified = NotClassified
    /\ \E device_name \in DeviceNames :
          classified' = [fn |-> "parse_name_for_service",
                         organization |-> <<>>, device_name |-> device_name,
                         result |-> Classified(parse_name_for_service(device_name), <<>>)]
    /\ NoJob

GetSiteAndService ==
    /\ classified = NotClassified
    /\ \E organization \in Organizations : \E device_name \in PairedDeviceNames :
          classified' = [fn |-> "get_site_and_service",
                         organization |-> organization, device_name |-> device_name,
                         result |-> get_site_and_service(organization, device_name)]
    /\ NoJob

NextClassifier ==
    ParseOrganization \/ ParseNameForSite \/ ParseNameForService \/ GetSiteAndService

SpecClassifier == InitClassifier /\ [][NextClassifier]_vars

---------------------------------------------------------------------------
(* Properties *)

\* The rows of the store that bear the identifiers of a node.
RowsOf(st, kind, ids) ==
    CASE kind = "diffsync_vminterface" ->
            {i \in st.vminterface :
                /\ i.name = ids.name
                /\ \E vm \in st.virtualmachine :
                      vm.name = ids.virtual_machine /\ i.virtual_machine = vm.pk}
      [] kind = "diffsync_ipaddress" ->
            Matching(st, "ipaddress",
                [host |-> ids.ip_address, prefix_length |-> ids.prefix_length])
      [] OTHER -> Matching(st, TableOf(kind), [name |-> ids.name])

\* The node the last call was made on, as the tree held it.
LastNode == CHOOSE n \in last.nodes[last.kind] : IdsOf(last.kind, n) = last.ids

\* The rows the last call's node stood for when the call began.
LastRows == RowsOf(last.store, last.kind, last.ids)

\* The rows it stands for now.
NowRows == RowsOf(store, last.kind, last.ids)

\* The identifier a warning about the last call's node names.
LastIdentifier ==
    IF last.kind = "diffsync_ipaddress" THEN last.ids.ip_address ELSE last.ids.name

\* The last call logged one warning, and it names the node.
LoggedOnce ==
    /\ Len(log) = Len(last.log) + 1
    /\ SubSeq(log, 1, Len(last.log)) = last.log
    /\ log[Len(log)].level = "warning"

\* The place the specification gives each kind of row in the flush.
ClaimedPlace(table) ==
    CASE table = "ipaddress" -> 1
      [] table = "vminterface" -> 2
      [] table \in {"virtualmachine", "device"} -> 3
      [] table = "cluster" -> 4
      [] table = "clustergroup" -> 5

\* C1: the flush deletes every IPAddress before any VMInterface, every
\* VMInterface before any VirtualMachine or Host, those before any Cluster, and
\* every Cluster before any ClusterGroup, whatever the order of registration:
\* the deletes issued so far are in that order, and no object still filed
\* belongs before one already deleted.
C1_FlushOrder ==
    /\ \A i, j \in 1..Len(deleted) :
          i < j => ClaimedPlace(deleted[i].table) <= ClaimedPlace(deleted[j].table)
    /\ \A i \in 1..Len(deleted) : \A b \in BucketKeys :
       \A k \in 1..Len(objects_to_delete[b]) :
          ClaimedPlace(deleted[i].table) <= ClaimedPlace(objects_to_delete[b][k].table)

\* All six kinds of row were filed, the address last of all, and the flush
\* has deleted every one of them.
C1_Witness ==
    /\ phase = "done"
    /\ last.op = "delete" /\ last.kind = "diffsync_ipaddress"
    /\ {deleted[i].table : i \in 1..Len(deleted)} = Tables \ {"clustertype"}
    /\ deleted[1].table = "ipaddress"

\* C2: during the walk no row leaves the store, and delete() on a node whose
\* row exists appends that row to the bucket of its own kind, changes no other
\* bucket and nothing in the store, and the node leaves the tree.
C2_DeleteOnlyRegisters ==
    phase = "walk" =>
        /\ \A t \in Tables : \A r \in last.store[t] : WithPk(store, t, r.pk) # {}
        /\ (last.op = "delete" /\ LastRows # {}) =>
              /\ raised = NoException
              /\ store = last.store
              /\ \E row \in LastRows \cap RecordsOf(last.store, last.kind, LastNode) :
                    objects_to_delete =
                        [last.objects_to_delete EXCEPT
                            ![BucketOf(TableOf(last.kind))] =
                                Append(@, [table |-> TableOf(last.kind), rec |-> row])]
              /\ ~InTree(nodes, last.kind, last.ids)

\* C3: a create() that meets an IntegrityError logs a warning naming the
\* identifier and returns; nothing is raised.
C3_ConflictIsLogged ==
    (last.op = "create" /\ last.met = "IntegrityError") =>
        /\ raised = NoException
        /\ LoggedOnce
        /\ log[Len(log)].id = LastIdentifier

\* The row update() or delete() looks up is absent: the node's own row, or
\* the virtual machine that owns an interface.
LookupFails ==
    \/ LastRows = {}
    \/ /\ last.kind = "diffsync_vminterface"
       /\ Matching(last.store, "virtualmachine",
                   [name |-> last.ids.virtual_machine]) = {}

\* C4: an update() or delete() whose row is absent logs a warning, leaves
\* the store and the buckets as they were, and returns.
C4_AbsentRowIsLogged ==
    (phase = "walk" /\ last.op \in {"update", "delete"} /\ LookupFails) =>
        /\ raised = NoException
        /\ LoggedOnce
        /\ store = last.store
        /\ objects_to_delete = last.objects_to_delete

\* A row that create() needs beside its own does not exist.
MissingDependency ==
    LET a == last.attrs
        absent(table, name) == Matching(last.store, table, [name |-> name]) = {}
    IN  CASE last.kind = "diffsync_host" ->
                \/ a.site \notin Sites
                \/ a.device_type \notin DeviceTypes
                \/ a.device_role \notin DeviceRoles
                \/ HasKey(a, "cluster") /\ absent("cluster", a.cluster)
          [] last.kind = "diffsync_virtual_machine" ->
                \/ a.status \notin Statuses
                \/ use_clusters /\ absent("cluster", a.cluster)
          [] last.kind = "diffsync_vminterface" ->
                absent("virtualmachine", last.ids.virtual_machine)
          [] last.kind = "diffsync_ipaddress" ->
                \/ absent("virtualmachine", a.vm_name)
                \/ RowsOf(last.store, "diffsync_vminterface",
                       [name |-> a.vm_interface_name, virtual_machine |-> a.vm_name]) = {}
                \/ a.state \notin Statuses
          [] OTHER -> FALSE

\* C5: a create() with a missing dependency logs it, writes no row of its
\* kind, still has its node added to the tree, and raises nothing.
C5_MissingDependencyIsLogged ==
    (phase = "walk" /\ last.op = "create" /\ MissingDependency) =>
        /\ raised = NoException
        /\ LoggedOnce
        /\ store[TableOf(last.kind)] = last.store[TableOf(last.kind)]
        /\ InTree(nodes, last.kind, last.ids)

\* C9: cluster is a compared attribute of Host and VirtualMachine exactly when
\* DEFAULT_USE_CLUSTERS is true; with the flag false a create() of either kind
\* whose other dependencies exist and whose row is new succeeds from attrs
\* without cluster, the virtual machine in the DEFAULT_CLUSTER_NAME cluster;
\* with the flag true the row created is in the cluster attrs names.
C9_ClusterFollowsFlag ==
    /\ \A kind \in {"diffsync_host", "diffsync_virtual_machine"} :
          ("cluster" \in _attributes(kind)) <=> use_clusters
    /\ ( /\ last.op = "create"
         /\ last.kind \in {"diffsync_host", "diffsync_virtual_machine"}
         /\ ~MissingDependency
         /\ LastRows = {} )
       => /\ HasKey(last.attrs, "cluster") <=> use_clusters
          /\ raised = NoException
          /\ NowRows # {}
          /\ use_clusters => \A row \in NowRows : row.cluster = last.attrs.cluster
          /\ (~use_clusters /\ last.kind = "diffsync_virtual_machine") =>
                /\ \A row \in NowRows : row.cluster = DEFAULT_CLUSTER_NAME
                /\ Matching(store, "cluster", [name |-> DEFAULT_CLUSTER_NAME]) # {}

\* The attributes of the last call's row, as the tree shows them.
ShownBefore == NodeOf(last.store, last.kind, CHOOSE row \in LastRows : TRUE, use_clusters)

ShownAfter == NodeOf(store, last.kind, CHOOSE row \in NowRows : TRUE, use_clusters)

\* C10: update(attrs) on a node whose row exists leaves the row holding the
\* value of attrs for every attribute attrs carries, whatever the value, and
\* the value it held for every other attribute.
C10_UpdateSetsWhatIsPresent ==
    (last.op = "update" /\ LastRows # {}) =>
        /\ raised = NoException
        /\ NowRows # {}
        /\ \A k \in _attributes(last.kind) :
              ShownAfter[k] = IF HasKey(last.attrs, k) THEN last.attrs[k]
                              ELSE ShownBefore[k]

\* The hosts of the first pass, and those among them with a dependency that
\* does not exist.
SiblingHosts == source[1]["diffsync_host"]

FailingHosts ==
    {h \in SiblingHosts :
        \/ h.site \notin Sites
        \/ h.device_type \notin DeviceTypes
        \/ h.device_role \notin DeviceRoles}

\* The fields of some rows, their primary keys apart.
Fields(rows) == {Restrict(r, DOMAIN r \ {"pk"}) : r \in rows}

\* The rows of a host after a create() of that host alone.
CreatedAlone(h) ==
    Matching(create("diffsync_host", [store EXCEPT !.device = initial.device],
                    EmptyBuckets, <<>>, IdsOf("diffsync_host", h),
                    Restrict(h, _attributes("diffsync_host"))).store,
             "device", [name |-> h.name])

\* The walk of the first pass is over: it reached its end or was left.
FirstWalkOver == pass = 1 /\ (phase = "flush" \/ raised # NoException)

\* Two new hosts are the only entities with anything missing, and exactly
\* one of them has a dependency that does not exist.
OneSiblingFails ==
    /\ source[1]["diffsync_virtual_machine"] = {}
    /\ Cardinality(SiblingHosts) = 2
    /\ Cardinality(FailingHosts) = 1
    /\ \A h \in SiblingHosts : Matching(initial, "device", [name |-> h.name]) = {}

\* C6: when exactly one of the sibling hosts of a batch has a missing
\* dependency, the walk reaches its end, the other host has the row its
\* create() alone would have given it, and exactly one warning is logged.
C6_SiblingsAreIndependent ==
    (FirstWalkOver /\ OneSiblingFails) =>
        /\ raised = NoException
        /\ \A h \in SiblingHosts \ FailingHosts :
              /\ Matching(store, "device", [name |-> h.name]) # {}
              /\ Fields(Matching(store, "device", [name |-> h.name]))
                    = Fields(CreatedAlone(h))
        /\ Len(log) = 1

\* C7: the second pass of an unchanged source tree over the store the first
\* pass left finds nothing in its diff and calls no create(), update() or
\* delete().
C7_SecondPassIsEmpty ==
    (pass = 2 /\ source[2] = source[1]) =>
        /\ queue = <<>>
        /\ last.op = "none"

\* The source trees that hold the chain and nothing else: a cluster group,
\* its cluster, a virtual machine, its interface and its address.
ChainTrees ==
    {SourceTree([vm |-> status, primary |-> pr, enabled |-> e, mac |-> mac,
                 h1 |-> "none", h2 |-> "none"], use_clusters) :
        status \in {"Active", "Staged"}, pr \in {None, "10.0.0.1"}, e \in BOOLEAN,
        mac \in {"00:50:56:00:00:01", None}}

ChainKinds == {"clustergroup", "cluster", "virtualmachine", "vminterface", "ipaddress"}

\* The chain is created on an empty store, then the source is empty.
RoundTrip ==
    /\ initial = EmptyStore
    /\ source[1] \in ChainTrees
    /\ source[2] = EmptyTree

\* C8: on an empty store the chain is created, and once every node of it is
\* stale, delete() files the row of each node met in the walk, the flush
\* deletes no row that a row still in the store refers to, and at its end the
\* store has no row of any of the five kinds.
C8_RoundTrip ==
    RoundTrip =>
        /\ raised = NoException
        /\ (pass = 2 /\ last.op = "delete") =>
              /\ last.returned = "model"
              /\ Len(objects_to_delete[BucketOf(TableOf(last.kind))])
                    + Cardinality({i \in 1..Len(deleted) :
                                      deleted[i].table = TableOf(last.kind)}) >= 1
        /\ pass = 2 =>
              \A i \in 1..Len(deleted) : deleted[i].found /\ ~deleted[i].referenced
        /\ (pass = 2 /\ phase = "done") =>
              /\ \A t \in ChainKinds : store[t] = {}
              /\ ChainKinds \subseteq {deleted[i].table : i \in 1..Len(deleted)}

\* The addresses on the interfaces of the last call's virtual machine, when
\* the call began.
AddressesOfVM ==
    {ip \in last.store.ipaddress :
        \E i \in last.store.vminterface : \E vm \in LastRows :
            ip.assigned = i.pk /\ i.virtual_machine = vm.pk}

\* The primary address attrs configures for an IP version, or None.
ConfiguredPrimary(v) ==
    LET key == IF v = 4 THEN "primary_ip4" ELSE "primary_ip6"
    IN  IF HasKey(last.attrs, key) THEN last.attrs[key] ELSE None

\* The primary pointer of an IP version in a row of the virtual machine.
Pointer(row, v) == IF v = 4 THEN row.primary_ip4 ELSE row.primary_ip6

\* update() of a virtual machine returned, with a primary address in attrs.
PrimaryUpdated ==
    /\ last.op = "update" /\ last.kind = "diffsync_virtual_machine"
    /\ last.returned = "model"
    /\ HasKey(last.attrs, "primary_ip4") \/ HasKey(last.attrs, "primary_ip6")

\* The addresses of the last call's machine whose host is the configured
\* primary address of their IP version.
MatchingPrimary(v) ==
    {ip \in AddressesOfVM : version(ip.host) = v /\ ip.host = ConfiguredPrimary(v)}

\* C11, as claimed: after update() of a virtual machine returns with
\* primary_ip4 or primary_ip6 in attrs, the primary pointer of each IP version
\* refers to every address of the machine whose host is the configured primary
\* address of that version, and is what it was when no address matches.
C11_PointerAtEveryMatch ==
    PrimaryUpdated =>
        \A before \in LastRows : \A after \in NowRows : \A v \in {4, 6} :
            /\ \A ip \in MatchingPrimary(v) : Pointer(after, v) = ip.pk
            /\ MatchingPrimary(v) = {} => Pointer(after, v) = Pointer(before, v)

\* C11, amended: after update() of a virtual machine returns with primary_ip4
\* or primary_ip6 in attrs, the primary pointer of each IP version refers to an
\* address of the machine whose host is the configured primary address of that
\* version, the one the scan meets last (interfaces by name, the addresses of
\* an interface by prefix length), and is what it was when no address matches.
C11_PrimaryPointers ==
    PrimaryUpdated =>
        \A before \in LastRows : \A after \in NowRows : \A v \in {4, 6} :
            /\ MatchingPrimary(v) # {} =>
                  \E ip \in MatchingPrimary(v) :
                      /\ Pointer(after, v) = ip.pk
                      /\ \A other \in MatchingPrimary(v) :
                            ~ScannedBefore(last.store, ip, other)
            /\ MatchingPrimary(v) = {} => Pointer(after, v) = Pointer(before, v)

\* update() moved the IPv4 pointer from one address of the machine to the
\* last of the three of the configured host, the one on the second interface,
\* and left the IPv6 pointer, which no address matched.
C11_Witness ==
    /\ PrimaryUpdated
    /\ Cardinality(MatchingPrimary(4)) = 3
    /\ \E before \in LastRows : \E after \in NowRows :
          /\ PrimaryHost(last.store, before.primary_ip4) = "10.0.0.2"
          /\ \E ip \in WithPk(store, "ipaddress", after.primary_ip4) :
                ip.host = "10.0.0.1" /\ ip.prefix_length = 24
          /\ after.primary_ip6 = before.primary_ip6
    /\ \E ip \in AddressesOfVM : version(ip.host) = 6

\* The patterns of a list that match a string, by their place in the list.
MatchingIn(mappings, s) == {i \in DOMAIN mappings : search(mappings[i].pattern, s)}

LastOf(positions) == CHOOSE i \in positions : \A j \in positions : j <= i

\* The separators of an organization: its spaces and its "-".
Separators(s) == {i \in DOMAIN s : s[i] \in {" ", "-"}}

\* The part of a string after its first separator; nothing when it has none.
AfterFirstSeparator(s) ==
    IF Separators(s) = {} THEN <<>>
    ELSE SubSeq(s, FirstOf(Separators(s)) + 1, Len(s))

\* The site the last matching pattern stands for, as the claim words it.
ClaimedSite(mappings, s) ==
    LET key == mappings[LastOf(MatchingIn(mappings, s))].key
    IN  lower(IF key = SplitKey THEN AfterFirstSeparator(s) ELSE key)

\* The string the last call classified, and the patterns it was matched with.
ClassifiedString ==
    IF classified.fn = "parse_name_for_site" THEN classified.device_name
    ELSE classified.organization

ClassifiedWith ==
    IF classified.fn = "parse_name_for_site" THEN DEVICE_NAME_DC_MAPPINGS
    ELSE ORGANIZATION_DC_MAPPINGS

SiteParsed ==
    /\ classified.fn \in {"parse_name_for_site", "parse_organization_for_site_service"}
    /\ MatchingIn(ClassifiedWith, ClassifiedString) # {}

JUPITER_GTN == <<"J", "U", "P", "I", "T", "E", "R", "-", "G", "T", "N">>

\* C12: the site parse_name_for_site and
\* parse_organization_for_site_service return is the lowercased code of the
\* last pattern that matches, for a split pattern the part of the organization
\* after its first separator, and "JUPITER-GTN" gives the pair of that match.
C12_LastMatchWins ==
    /\ SiteParsed =>
          /\ classified.result.raised = NoException
          /\ classified.result.site = ClaimedSite(ClassifiedWith, ClassifiedString)
    /\ (classified.fn = "parse_organization_for_site_service"
        /\ classified.organization = JUPITER_GTN) =>
          classified.result = Classified(<<"j", "1">>, <<"g", "t", "n">>)

\* The patterns that can give a string its site and its service.
SiteDetermined(organization, device_name) ==
    \/ MatchingIn(ORGANIZATION_DC_MAPPINGS, organization) # {}
    \/ MatchingIn(DEVICE_NAME_DC_MAPPINGS, device_name) # {}

ServiceDetermined(organization, device_name) ==
    \/ \E i \in MatchingIn(ORGANIZATION_DC_MAPPINGS, organization) :
          ORGANIZATION_DC_MAPPINGS[i].key = SplitKey
    \/ organization = <<"F", "u", "s", "i", "o", "n">>
    \/ MatchingIn(SERVICE_MAPPINGS, device_name) # {}

\* C13: every call of parse_organization_for_site_service,
\* parse_name_for_site, parse_name_for_service and get_site_and_service
\* returns a value, never raises, and the site or the service that no pattern
\* of the call's arguments determines is "unknown".
C13_ClassifierNeverRaises ==
    classified # NotClassified =>
        /\ classified.result.raised = NoException
        /\ (classified.fn # "parse_name_for_service"
            /\ ~SiteDetermined(classified.organization, classified.device_name))
              => classified.result.site = Unknown
        /\ (classified.fn # "parse_name_for_site"
            /\ ~ServiceDetermined(classified.organization, classified.device_name))
              => classified.result.service = Unknown

===========================================================================
